---------------------------- MODULE Spec2Model ----------------------------
(***************************************************************************)
(* Model of the redirect dispatcher (caionorder/redirect): the ranking     *)
(* refresher, the per-request dispatch engine of RedirectController (the   *)
(* visitor-cursor-over-sorted-domains revision) and the click counter      *)
(* store.  Strings are TLA+ strings (TLC evaluates \o, Len and SubSeq on   *)
(* them); eCPM values are integers (hundredths, as preResultApi rounds     *)
(* them to two decimals).                                                  *)
(***************************************************************************)
EXTENDS Integers, Sequences, FiniteSets, TLC

(***************************************************************************)
(* Bounds of the model                                                     *)
(***************************************************************************)
\* requests that may arrive in one behaviour
MaxReq == 6
\* requests that may arrive in one behaviour that crosses hour boundaries
MaxHourReq == 2
\* requests that may arrive in one behaviour that records the clicks
MaxClickReq == 3
\* refresh runs that may start in one behaviour
MaxRuns == 2
\* requests that may be in flight at the same time
MaxConc == 2
\* clock advances in one behaviour
MaxTicks == 1
\* workers the cluster manager forks at start (WORKER_COUNT)
WorkerCount == 2
\* worker exits, each answered by a fork
MaxExits == 2
\* dispatch requests while commands of the shared cache may fail
MaxFaultReq == 3
\* requests per behaviour where the language and UTM parameters vary
MaxUrlReq == 2
\* requests per behaviour where the in-memory copies age and are refreshed
MaxCacheReq == 2
\* refresh runs in such a behaviour
MaxCacheRuns == 1
\* requests per behaviour in which the ranking keys expire
MaxExpiryReq == 4
MaxAppReq == 3
MaxReaderReq == 3
MaxReaderRuns == 1
MaxIdLen == 2
MaxCursorReq == 3
MaxDetachedReq == 2
MaxRotReq == 5
MaxRankedReq == 3
MaxRankedRuns == 1
MaxRewriteReq == 3
MaxRewriteRuns == 1

(***************************************************************************)
(* Program constants                                                       *)
(***************************************************************************)
\* config/domains.ts: the registry, in order
domains == <<"useuapp.com", "dopeaaps.com", "odiahoje.com", "esportesblog.com">>

CACHE_TTL_MS == 60000
\* 'EX', 3600 of the ranking keys and expire(key, 3600) of the visitor cursor
RANKING_TTL == 3600
VISITOR_TTL == 3600
\* 'EX', 5 of recent:<ip>
RECENT_TTL == 5

\* a key without expiry (what TTL answers for it)
NoExpiry == 0 - 1

(***************************************************************************)
(* Strings                                                                 *)
(***************************************************************************)
Char(s, i) == SubSeq(s, i, i)

RECURSIVE IndexFrom(_, _, _)
\* the first position >= i where sub occurs in s, 0 if none (String.indexOf)
IndexFrom(s, sub, i) ==
    IF i + Len(sub) - 1 > Len(s) THEN 0
    ELSE IF SubSeq(s, i, i + Len(sub) - 1) = sub THEN i
    ELSE IndexFrom(s, sub, i + 1)

\* String.prototype.includes
includes(s, sub) == IndexFrom(s, sub, 1) > 0

Unreserved ==
    {"a","b","c","d","e","f","g","h","i","j","k","l","m","n","o","p","q","r",
     "s","t","u","v","w","x","y","z","A","B","C","D","E","F","G","H","I","J",
     "K","L","M","N","O","P","Q","R","S","T","U","V","W","X","Y","Z",
     "0","1","2","3","4","5","6","7","8","9"}

\* the %XX escape of an ASCII character outside the unreserved sets, and the
\* escapes of the two UTF-8 bytes of a character outside ASCII
PctEscape(c) ==
    CASE c = " " -> "%20"
      [] c = "!" -> "%21"
      [] c = "#" -> "%23"
      [] c = "$" -> "%24"
      [] c = "%" -> "%25"
      [] c = "&" -> "%26"
      [] c = "'" -> "%27"
      [] c = "(" -> "%28"
      [] c = ")" -> "%29"
      [] c = "*" -> "%2A"
      [] c = "+" -> "%2B"
      [] c = "," -> "%2C"
      [] c = "-" -> "%2D"
      [] c = "." -> "%2E"
      [] c = "/" -> "%2F"
      [] c = ":" -> "%3A"
      [] c = ";" -> "%3B"
      [] c = "=" -> "%3D"
      [] c = "?" -> "%3F"
      [] c = "@" -> "%40"
      [] c = "_" -> "%5F"
      [] c = "~" -> "%7E"
      [] c = "é" -> "%C3%A9"

\* encodeURI: the reserved characters ; / ? : @ & = + $ , # stay as well
encodeURIChar(c) ==
    IF c \in Unreserved \cup {"-", "_", ".", "!", "~", "*", "'", "(", ")",
                              ";", "/", "?", ":", "@", "&", "=", "+", "$", ",", "#"}
    THEN c ELSE PctEscape(c)

\* encodeURIComponent leaves A-Z a-z 0-9 - _ . ! ~ * ' ( ) and escapes the rest
encodeURIComponentChar(c) ==
    IF c \in Unreserved \cup {"-", "_", ".", "!", "~", "*", "'", "(", ")"}
    THEN c ELSE PctEscape(c)

RECURSIVE encodeURIComponentFrom(_, _)
\* the characters of s from position i on, each one encoded
encodeURIComponentFrom(s, i) ==
    IF i > Len(s) THEN "" ELSE encodeURIComponentChar(Char(s, i)) \o encodeURIComponentFrom(s, i + 1)

encodeURIComponent(s) == encodeURIComponentFrom(s, 1)

\* URLSearchParams serialisation (application/x-www-form-urlencoded):
\* leaves A-Z a-z 0-9 * - . _ , writes a space as + and escapes the rest
formEncodeChar(c) ==
    IF c \in Unreserved \cup {"*", "-", ".", "_"} THEN c
    ELSE IF c = " " THEN "+" ELSE PctEscape(c)

RECURSIVE formEncodeFrom(_, _)
\* the characters of s from position i on, each one serialised
formEncodeFrom(s, i) ==
    IF i > Len(s) THEN "" ELSE formEncodeChar(Char(s, i)) \o formEncodeFrom(s, i + 1)

formEncode(s) == formEncodeFrom(s, 1)


(***************************************************************************)
(* The refresher's computation (executeProcessInternal, pure part)         *)
(***************************************************************************)
\* item.domain / item.custom_value are usable (not undefined, not "")
HasField(item, f) == f \in DOMAIN item /\ item[f] # ""

\* parseFloat(String(item.ecpm || 0))
EcpmOf(item) == IF "ecpm" \in DOMAIN item THEN item.ecpm ELSE 0

\* the position of domain d in an ordered map (sequence of entries), 0 if none
PosOf(map, d) ==
    IF \E i \in 1..Len(map) : map[i].domain = d
    THEN CHOOSE i \in 1..Len(map) : map[i].domain = d
    ELSE 0

\* `https://${domain}/?p=${encodeURIComponent(postId)}`
BestUrl(domain, postId) ==
    "https://" \o domain \o "/?p=" \o encodeURIComponent(postId)

BestEntry(item) ==
    [domain |-> item.domain,
     url    |-> BestUrl(item.domain, item.custom_value),
     postId |-> item.custom_value,
     ecpm   |-> EcpmOf(item)]

\* the replacement test with >=: among equals the last-seen row wins
ReplacesOrEqual(ecpm, old) == ecpm >= old

\* the replacement test of the loop: no entry yet, or a strictly greater eCPM
Replaces(ecpm, old) == ecpm > old

\* one iteration of the loop over data
BestStep(best, item) ==
    IF ~(HasField(item, "domain") /\ HasField(item, "custom_value")) THEN best
    ELSE LET p == PosOf(best, item.domain) IN
         IF p = 0 THEN Append(best, BestEntry(item))
         ELSE IF Replaces(EcpmOf(item), best[p].ecpm)
              THEN [best EXCEPT ![p] = BestEntry(item)]
              ELSE best

RECURSIVE BuildFrom(_, _, _)
BuildFrom(best, data, i) ==
    IF i > Len(data) THEN best
    ELSE BuildFrom(BestStep(best, data[i]), data, i + 1)

\* bestByDomain after the loop: an object, kept as its entries in key order
BuildBestByDomain(data) == BuildFrom(<<>>, data, 1)

\* the comparator of the sort: (a, b) => b.ecpm - a.ecpm
SortCompare(a, b) == b.ecpm - a.ecpm

RECURSIVE InsertSorted(_, _)
\* e placed after every element that does not compare greater than it (stable)
InsertSorted(list, e) ==
    IF list = <<>> THEN <<e>>
    ELSE IF SortCompare(Head(list), e) > 0
         THEN <<e>> \o list
         ELSE <<Head(list)>> \o InsertSorted(Tail(list), e)

RECURSIVE SortFrom(_, _, _)
SortFrom(acc, list, i) ==
    IF i > Len(list) THEN acc
    ELSE SortFrom(InsertSorted(acc, list[i]), list, i + 1)

\* Object.entries(bestByDomain).map(...).sort(...): a stable sort
SortedDomainsOf(best) == SortFrom(<<>>, best, 1)

\* config/domains.ts generateRandomPath
generateRandomPath == "/random"


(***************************************************************************)
(* URL handling of redirect(): language prefix and UTM decoration          *)
(***************************************************************************)
\* new URL(redirectUrl) of a "https://<host><path>[?<query>]" string
ParseUrl(u) ==
    LET rest  == SubSeq(u, 9, Len(u))
        slash == IndexFrom(rest, "/", 1)
        host  == IF slash = 0 THEN rest ELSE SubSeq(rest, 1, slash - 1)
        tail  == IF slash = 0 THEN "/" ELSE SubSeq(rest, slash, Len(rest))
        qm    == IndexFrom(tail, "?", 1)
    IN  [hostname |-> host,
         pathname |-> IF qm = 0 THEN tail ELSE SubSeq(tail, 1, qm - 1),
         search   |-> IF qm = 0 THEN "" ELSE SubSeq(tail, qm, Len(tail))]

\* url.toString()
UrlToString(url) == "https://" \o url.hostname \o url.pathname \o url.search

\* the pathname setter escapes the characters of the path percent-encode set
pathEncodeChar(c) == IF c \in {" ", "#", "?"} THEN PctEscape(c) ELSE c

RECURSIVE pathEncodeFrom(_, _)
\* the characters of s from position i on, as the pathname setter keeps them
pathEncodeFrom(s, i) ==
    IF i > Len(s) THEN "" ELSE pathEncodeChar(Char(s, i)) \o pathEncodeFrom(s, i + 1)

\* url.pathname = `/${prefix}${url.pathname}`
WithPathPrefix(url, prefix) ==
    [url EXCEPT !.pathname = pathEncodeFrom("/" \o prefix, 1) \o @]

invertedLangDomains ==
    {"appmobile4u.com", "appcombos.com", "informanoticia.com",
     "buscaapp.com.br", "lavoriinitalia.com", "cincosete.com"}

\* language=pt left without prefix on every domain
ApplyLanguagePtDirect(redirectUrl, language) ==
    LET url == ParseUrl(redirectUrl)
        isInvertedDomain == \E d \in invertedLangDomains : includes(url.hostname, d)
    IN  IF language = "pt" \/ (language = "" /\ ~isInvertedDomain)
        THEN redirectUrl
        ELSE UrlToString(WithPathPrefix(url, IF language = "" THEN "en" ELSE language))

\* the prefix without the /en default of the inverted domains
ApplyLanguageNoDefault(redirectUrl, language) ==
    IF language # "" /\ language # "pt"
    THEN UrlToString(WithPathPrefix(ParseUrl(redirectUrl), language))
    ELSE redirectUrl

\* redirectUrl after the language prefix; language "" stands for no parameter
ApplyLanguage(redirectUrl, language) ==
    LET url == ParseUrl(redirectUrl)
        isInvertedDomain == \E d \in invertedLangDomains : includes(url.hostname, d)
    IN  IF isInvertedDomain
        THEN IF language = "" \/ language = "en"
             THEN UrlToString(WithPathPrefix(url, "en"))
             ELSE IF language # "pt"
                  THEN UrlToString(WithPathPrefix(url, language))
                  ELSE redirectUrl
        ELSE IF language # ""
             THEN UrlToString(WithPathPrefix(url, language))
             ELSE redirectUrl

\* a || b for strings
OrElse(a, b) == IF a # "" THEN a ELSE b

Param(k, v) == k \o "=" \o formEncode(v)

OptParam(k, v) == IF v # "" THEN "&" \o Param(k, v) ELSE ""

\* utmParams.toString()
UtmParams(query, linkId) ==
    Param("utm_source", OrElse(query.utm_source, "redron"))
    \o "&" \o Param("utm_medium", OrElse(query.utm_medium, "broadcast"))
    \o "&" \o Param("utm_campaign",
                    OrElse(query.utm_campaign, OrElse(linkId, "direct")))
    \o OptParam("utm_term", query.utm_term)
    \o OptParam("utm_content", query.utm_content)
    \o OptParam("fbclid", query.fbclid)
    \o OptParam("gclid", query.gclid)

\* the parameters always appended with "?"
FinalRedirectUrlQuestion(redirectUrl, query, linkId) ==
    ApplyLanguage(redirectUrl, query.language) \o "?" \o UtmParams(query, linkId)

\* finalRedirectUrl
FinalRedirectUrl(redirectUrl, query, linkId) ==
    LET prefixed  == ApplyLanguage(redirectUrl, query.language)
        separator == IF includes(prefixed, "?") THEN "&" ELSE "?"
    IN  prefixed \o separator \o UtmParams(query, linkId)

\* a request without language and without UTM parameters.  languageRepeated
\* says that req.query.language is not a string but an array (the parameter
\* given more than once); language then holds what a template literal makes
\* of it, the values joined by commas
NoQuery ==
    [language |-> "", utm_source |-> "", utm_medium |-> "", utm_campaign |-> "",
     utm_term |-> "", utm_content |-> "", fbclid |-> "", gclid |-> "",
     languageRepeated |-> FALSE]


(***************************************************************************)
(* State                                                                   *)
(***************************************************************************)
VARIABLES
    now,            \* the clock, in seconds
    ticks,          \* clock advances so far
    redisVisitor,   \* visitor_count:<ip>:<hour>  ->  [n, exp]
    redisCounter,   \* redirect:domain:counter (0: no key)
    redisBest,      \* redirect:best_links_map
    redisSorted,    \* redirect:sorted_domains
    redisRecent,    \* recent:<ip>  ->  [val, exp]
    cache,          \* per controller: the in-memory copies and their times
    req,            \* the dispatch requests in flight, by slot
    arrived,        \* requests received so far
    served,         \* the responses sent so far (history)
    clickTasks,     \* detached incrementClick calls still running
    clickDocs,      \* the documents of redirects_clicks, in insertion order
    clickIndex,     \* the unique index on link_id: "building", "built", "failed"
    clickLost,      \* click writes that failed (history)
    run,            \* per controller: its executeProcessInternal in progress
    links,          \* the documents of redirects_links, in insertion order
    refreshes,      \* refresh runs started so far
    pubData,        \* the analytics result redirect:best_links_map was built from (history)
    lastEnd,        \* how the refresh run that ended last ended (history)
    cluster         \* the processes of the deployment, and which one this is

timeVars  == <<now, ticks>>
redisVars == <<redisVisitor, redisCounter, redisBest, redisSorted, redisRecent>>
dispVars  == <<cache, req, arrived, served>>
clickVars == <<clickTasks, clickDocs, clickIndex, clickLost>>
refreshVars == <<run, links, refreshes, pubData, lastEnd>>
vars      == <<timeVars, redisVars, dispVars, clickVars, refreshVars, cluster>>

IPs == {"1.2.3.4", "5.6.7.8"}
\* the controller created by createApp for "/" (1) and the one of the /api router (2)
Ctrls == {1, 2}
Slots == 1..MaxConc

\* new Date().getHours()
HourOf(t) == (t \div 3600) % 24

\* a key of the shared cache holding a JSON value, and the absent key
KeyAbsent == [present |-> FALSE, val |-> <<>>, exp |-> NoExpiry]
KeySet(v, ttl) == [present |-> TRUE, val |-> v, exp |-> now + ttl]
Live(k) == k.present /\ (k.exp = NoExpiry \/ now < k.exp)

\* the age in seconds compared with the limit in milliseconds
FreshSeconds(time) == (now - time) < CACHE_TTL_MS

\* (now - time) < this.CACHE_TTL_MS
Fresh(time) == (now - time) * 1000 < CACHE_TTL_MS

NoCache == [sorted |-> <<>>, sortedTime |-> 0, best |-> <<>>, bestTime |-> 0]

\* a controller with no refresh in progress
\* (prev: the in-memory copies when the run started; fault: whether a
\* link-store command of the run has failed; both for the record only;
\* today: the date the run sent as start and end of its query)
\* what a run found when it started, kept for a run that starts right after
\* a run over the same rows has returned: the ranking keys and the link store
NoStart == [best |-> KeyAbsent, sorted |-> KeyAbsent, links |-> <<>>]

IdleRun ==
    [pc |-> "idle", data |-> <<>>, best |-> <<>>, sorted |-> <<>>,
     todo |-> <<>>, i |-> 0, existing |-> 0, prev |-> NoCache, fault |-> "none",
     start |-> NoStart, today |-> 0]

\* no refresh run has ended yet
NoEnd == [n |-> 0, ctrl |-> 0, data |-> <<>>, result |-> "none", fault |-> "none"]

\* the record of a run of controller c over data that ended with result
\* ("null", "map" or "throws") after fault ("none", "read", "cache", "links")
Ended(c, data, result, fault) ==
    [n |-> lastEnd.n + 1, ctrl |-> c, data |-> data, result |-> result, fault |-> fault]

\* worker ids: 0 stands for the sole process of an unclustered deployment
\* (cluster.isWorker false), 1, 2, ... are the ids cluster.fork() hands out
WorkerIds == 0..(WorkerCount + MaxExits)

\* !cluster.isWorker || cluster.worker?.id === 1
isMainProcess(w) == w = 0 \/ w = 1

\* process w has run createApp: its controllers exist
Online(w) == cluster.workers[w] = "online"

\* process w has the refresh schedule installed
Scheduled(w) == Online(w) /\ isMainProcess(w)

\* an unclustered deployment: the sole process, running; db tells whether
\* createApp holds a database connection (MONGODB_URL set and connectDB done),
\* tz is the offset of the host's local time, in seconds east of UTC
SoleProcess ==
    [enabled |-> FALSE, self |-> 0, forks |-> 0, db |-> TRUE, tz |-> 0,
     workers |-> [w \in WorkerIds |-> IF w = 0 THEN "online" ELSE "none"]]

\* controller c of this process can start a run: by its start-up call or its
\* cron task if the process has the schedule, and, for the controller of the
\* /api router (2), by GET /api/process in any process
CanRun(c) == Online(cluster.self) /\ (Scheduled(cluster.self) \/ c = 2)

\* an empty link store
NoLinks == <<>>

IdleReq ==
    [pc |-> "idle", id |-> 0, ctrl |-> 1, ip |-> "", query |-> NoQuery,
     key |-> <<"", 0>>, visit |-> 0, sorted |-> <<>>, savedNow |-> 0,
     domain |-> "", redirectUrl |-> "", linkId |-> "", counter |-> 0,
     path |-> "", reqUrl |-> "", down |-> FALSE]

(***************************************************************************)
(* redirect(): the code between two awaits                                 *)
(***************************************************************************)
\* the link id with its two parts exchanged
BestLinkIdSwapped(domain, postId) == "best_" \o postId \o "_" \o domain

\* `best_${domain}_${postId}`
BestLinkId(domain, postId) == "best_" \o domain \o "_" \o postId

\* the fallback branch once bestLinksMap is known
FallbackStage(q, bestLinksMap) ==
    LET p == PosOf(bestLinksMap, q.domain) IN
    IF p > 0
    THEN [q EXCEPT !.redirectUrl = bestLinksMap[p].url,
                   !.linkId = BestLinkId(q.domain, bestLinksMap[p].postId),
                   !.path = "fallback-best",
                   !.pc = "respond"]
    ELSE [q EXCEPT !.redirectUrl = "https://" \o q.domain \o generateRandomPath,
                   !.linkId = "fallback_" \o q.domain,
                   !.path = "fallback-random",
                   !.pc = "respond"]

\* the ranked test off by one: the last element is never served
RankedVisitShort(v, n) == n > 0 /\ v < n

\* whether visit number v is served from the ranked list
RankedVisit(v, n) == n > 0 /\ v <= n

\* the registry test off by one: the last registry domain is never served
RegistryVisitShort(v, n) == n = 0 /\ v < Len(domains)

\* whether visit number v is served in registry order
RegistryVisit(v, n) == n = 0 /\ v <= Len(domains)

\* a ranked selection that takes the URL from redirect:best_links_map and the
\* rest from the list entry
SelectStageMixed(q) ==
    IF RankedVisit(q.visit, Len(q.sorted))
    THEN LET sortedDomain == q.sorted[q.visit]
             p == IF Live(redisBest) THEN PosOf(redisBest.val, sortedDomain.domain) ELSE 0
         IN
         [q EXCEPT !.domain = sortedDomain.domain,
                   !.redirectUrl = IF p > 0 THEN redisBest.val[p].url ELSE sortedDomain.url,
                   !.linkId = BestLinkId(sortedDomain.domain, sortedDomain.postId),
                   !.path = "ranked",
                   !.pc = "respond"]
    ELSE IF RegistryVisit(q.visit, Len(q.sorted))
    THEN LET q1 == [q EXCEPT !.domain = domains[q.visit]]
             c  == cache[q.ctrl]
         IN  IF c.best # <<>> /\ Fresh(c.bestTime)
             THEN FallbackStage(q1, c.best)
             ELSE [q1 EXCEPT !.pc = "bestGet", !.savedNow = now]
    ELSE [q EXCEPT !.pc = "spill"]

\* the three-way selection, q.visit and q.sorted being known
SelectStage(q) ==
    IF RankedVisit(q.visit, Len(q.sorted))
    THEN LET sortedDomain == q.sorted[q.visit] IN
         [q EXCEPT !.domain = sortedDomain.domain,
                   !.redirectUrl = sortedDomain.url,
                   !.linkId = BestLinkId(sortedDomain.domain, sortedDomain.postId),
                   !.path = "ranked",
                   !.pc = "respond"]
    ELSE IF RegistryVisit(q.visit, Len(q.sorted))
    THEN LET q1 == [q EXCEPT !.domain = domains[q.visit]]
             c  == cache[q.ctrl]
         IN  IF c.best # <<>> /\ Fresh(c.bestTime)
             THEN FallbackStage(q1, c.best)
             ELSE [q1 EXCEPT !.pc = "bestGet", !.savedNow = now]
    ELSE [q EXCEPT !.pc = "spill"]

\* getSortedDomains up to its await, q.visit being known
SortedStage(q) ==
    LET c == cache[q.ctrl] IN
    IF c.sorted # <<>> /\ Fresh(c.sortedTime)
    THEN SelectStage([q EXCEPT !.sorted = c.sorted])
    ELSE [q EXCEPT !.pc = "sortedGet", !.savedNow = now]

\* the record of a response in the history
Response(q, status, location) ==
    [id |-> q.id, ip |-> q.ip, hour |-> q.key[2], visit |-> q.visit,
     sorted |-> q.sorted, domain |-> q.domain, url |-> q.redirectUrl,
     linkId |-> q.linkId, counter |-> q.counter, path |-> q.path,
     status |-> status, location |-> location,
     ctrl |-> q.ctrl, reqUrl |-> q.reqUrl, query |-> q.query, down |-> q.down]

\* the emergency fallback of the catch of redirect()
EmergencyUrl == "https://useuapp.com/random"

\* characters the URL parser rejects in a host
ForbiddenHostChars == {" ", "<", ">", "[", "]", "^", "|"}

\* new URL(u) throws: the host of "https://<host>/..." is empty or holds a
\* forbidden character
InvalidUrl(u) ==
    LET host == ParseUrl(u).hostname IN
    \/ host = ""
    \/ \E i \in 1..Len(host) : Char(host, i) \in ForbiddenHostChars

\* nothing between the selection and the response throws
ThrowsNever(q) == FALSE

\* the code between the selection and the response throws: new URL on a
\* string that is no URL, or language.toUpperCase() on an array
Throws(q) == InvalidUrl(q.redirectUrl) \/ q.query.languageRepeated

\* slot r goes on as q: either it waits for its next reply, or (after the
\* last await) the click is recorded, recent:<ip> written and the 302 sent;
\* if that code throws, the catch sends the emergency 302 instead.  The SET of
\* recent:<ip> is not awaited and its rejection is dropped: for a request
\* whose commands failed so far it may fail as well
Commit(r, q) ==
    IF q.pc = "respond" /\ Throws(q)
    THEN /\ served' = served \cup {Response([q EXCEPT !.path = "error"], 302, EmergencyUrl)}
         /\ req' = [req EXCEPT ![r] = IdleReq]
         /\ UNCHANGED <<clickTasks, redisRecent>>
    ELSE IF q.pc = "respond"
    THEN LET finalRedirectUrl == FinalRedirectUrl(q.redirectUrl, q.query, q.linkId) IN
         /\ clickTasks' = clickTasks \cup {[ip |-> q.ip, id |-> q.id, linkId |-> q.linkId,
                                               pc |-> "find"]}
         /\ \/ redisRecent' = [k \in DOMAIN redisRecent \cup {q.ip} |->
                                  IF k = q.ip
                                  THEN [val |-> finalRedirectUrl, exp |-> now + RECENT_TTL]
                                  ELSE redisRecent[k]]
            \/ q.down /\ UNCHANGED redisRecent
         /\ served' = served \cup {Response(q, 302, finalRedirectUrl)}
         /\ req' = [req EXCEPT ![r] = IdleReq]
    ELSE /\ req' = [req EXCEPT ![r] = q]
         /\ UNCHANGED <<clickTasks, redisRecent, served>>

InFlight == {r \in Slots : req[r].pc # "idle"}

(***************************************************************************)
(* redirect(): the steps of one request                                    *)
(***************************************************************************)
\* a cursor that is created but then read without being advanced
IncrStale(old) == IF old = 0 THEN 1 ELSE old

\* INCR of a key of the shared cache: the value it answers
IncrResult(old) == old + 1

\* the visitor cursor stored under key k (0: no such key)
Cursor(k) ==
    IF k \in DOMAIN redisVisitor /\ Live(redisVisitor[k])
    THEN redisVisitor[k].n ELSE 0

\* requests received so far, over all clients
Arrivals == arrived["1.2.3.4"] + arrived["5.6.7.8"]

\* req.path of the raw URL url: what precedes the query string
ReqPath(url) ==
    LET qm == IndexFrom(url, "?", 1) IN
    IF qm = 0 THEN url ELSE SubSeq(url, 1, qm - 1)

\* the short-circuit only for favicon.ico
IsFaviconIco(url) == includes(url, "favicon.ico")

\* req.path.includes('favicon') || req.url.includes('favicon')
IsFavicon(url) == includes(ReqPath(url), "favicon") \/ includes(url, "favicon")

\* a request for the raw URL path (its parsed query string being query)
\* arrives at controller c.  A favicon request is answered at once;
\* any other request takes its visit number: getAndIncrementVisitorDomainCount
\* sends INCR visitor_count:<ip>:<hour>, and the request is next seen when the
\* shared cache executes it
Arrive(c, ip, path, query, maxReq, maxConc) ==
    /\ Arrivals < maxReq
    /\ Cardinality(InFlight) < maxConc
    /\ arrived' = [arrived EXCEPT ![ip] = @ + 1]
    /\ LET r     == CHOOSE x \in Slots \ InFlight : \A y \in Slots \ InFlight : x <= y
           key   == <<ip, HourOf(now)>>
           count == IncrResult(Cursor(key))
           exp   == IF Cursor(key) = 0 THEN NoExpiry ELSE redisVisitor[key].exp
           q     == [IdleReq EXCEPT !.id = arrived[ip] + 1, !.ctrl = c, !.ip = ip,
                                    !.query = query, !.reqUrl = path]
           q1    == [q EXCEPT !.key = key, !.visit = count]
       IN  IF IsFavicon(path)
           THEN /\ served' = served \cup {Response([q EXCEPT !.path = "favicon"], 204, "")}
                /\ UNCHANGED <<req, redisVisitor, clickTasks, redisRecent>>
           ELSE /\ redisVisitor' = [k \in DOMAIN redisVisitor \cup {key} |->
                                      IF k = key
                                      THEN [present |-> TRUE, n |-> count, exp |-> exp]
                                      ELSE redisVisitor[k]]
                /\ IF count = 1
                   THEN Commit(r, [q1 EXCEPT !.pc = "expire"])
                   ELSE Commit(r, SortedStage(q1))
    /\ UNCHANGED <<cluster, timeVars, refreshVars, redisCounter, redisBest, redisSorted, cache,
                   clickDocs, clickIndex, clickLost>>

\* an EXPIRE of one minute
ExpireVisitorMinute(r) ==
    LET q == req[r] IN
    /\ q.pc = "expire"
    /\ redisVisitor' = IF Cursor(q.key) = 0 THEN redisVisitor
                       ELSE [redisVisitor EXCEPT ![q.key].exp = now + 60]
    /\ Commit(r, SortedStage(q))
    /\ UNCHANGED <<cluster, timeVars, refreshVars, redisCounter, redisBest, redisSorted, cache,
                   arrived, clickDocs, clickIndex, clickLost>>

\* getAndIncrementVisitorDomainCount: EXPIRE key 3600 after the first INCR
ExpireVisitor(r) ==
    LET q == req[r] IN
    /\ q.pc = "expire"
    /\ redisVisitor' = IF Cursor(q.key) = 0 THEN redisVisitor
                       ELSE [redisVisitor EXCEPT ![q.key].exp = now + VISITOR_TTL]
    /\ Commit(r, SortedStage(q))
    /\ UNCHANGED <<cluster, timeVars, refreshVars, redisCounter, redisBest, redisSorted, cache,
                   arrived, clickDocs, clickIndex, clickLost>>

\* the reply of GET redirect:sorted_domains where no value empties the result
\* instead of returning the in-memory list
SortedGetNoCopy(r) ==
    LET q == req[r] IN
    /\ q.pc = "sortedGet"
    /\ IF Live(redisSorted)
       THEN /\ cache' = [cache EXCEPT ![q.ctrl].sorted = redisSorted.val,
                                      ![q.ctrl].sortedTime = q.savedNow]
            /\ Commit(r, SelectStage([q EXCEPT !.sorted = redisSorted.val,
                                               !.down = FALSE]))
       ELSE /\ UNCHANGED cache
            /\ Commit(r, SelectStage([q EXCEPT !.sorted = <<>>, !.down = FALSE]))
    /\ UNCHANGED <<cluster, timeVars, refreshVars, redisVisitor, redisCounter, redisBest,
                   redisSorted, arrived, clickDocs, clickIndex, clickLost>>

\* getSortedDomains: the reply of GET redirect:sorted_domains
SortedGet(r) ==
    LET q == req[r]
        c == cache[q.ctrl]
    IN  /\ q.pc = "sortedGet"
        /\ IF Live(redisSorted)
           THEN /\ cache' = [cache EXCEPT ![q.ctrl].sorted = redisSorted.val,
                                          ![q.ctrl].sortedTime = q.savedNow]
                /\ Commit(r, SelectStage([q EXCEPT !.sorted = redisSorted.val,
                                                   !.down = FALSE]))
           ELSE /\ UNCHANGED cache
                /\ Commit(r, SelectStage([q EXCEPT !.sorted = c.sorted, !.down = FALSE]))
        /\ UNCHANGED <<cluster, timeVars, refreshVars, redisVisitor, redisCounter, redisBest, redisSorted,
                       arrived, clickDocs, clickIndex, clickLost>>

\* a read that stores the in-memory map again when the key is gone
BestGetRepublish(r) ==
    LET q == req[r]
        c == cache[q.ctrl]
    IN  /\ q.pc = "bestGet"
        /\ IF Live(redisBest)
           THEN /\ cache' = [cache EXCEPT ![q.ctrl].best = redisBest.val,
                                          ![q.ctrl].bestTime = q.savedNow]
                /\ Commit(r, FallbackStage([q EXCEPT !.down = FALSE], redisBest.val))
                /\ UNCHANGED redisBest
           ELSE /\ UNCHANGED cache
                /\ redisBest' = KeySet(c.best, RANKING_TTL)
                /\ Commit(r, FallbackStage([q EXCEPT !.down = FALSE], c.best))
        /\ UNCHANGED <<cluster, timeVars, refreshVars, redisVisitor, redisCounter, redisSorted,
                       arrived, clickDocs, clickIndex, clickLost>>

\* getBestLinksMap: the reply of GET redirect:best_links_map
BestGet(r) ==
    LET q == req[r]
        c == cache[q.ctrl]
    IN  /\ q.pc = "bestGet"
        /\ IF Live(redisBest)
           THEN /\ cache' = [cache EXCEPT ![q.ctrl].best = redisBest.val,
                                          ![q.ctrl].bestTime = q.savedNow]
                /\ Commit(r, FallbackStage([q EXCEPT !.down = FALSE], redisBest.val))
           ELSE /\ UNCHANGED cache
                /\ Commit(r, FallbackStage([q EXCEPT !.down = FALSE], c.best))
        /\ UNCHANGED <<cluster, timeVars, refreshVars, redisVisitor, redisCounter, redisBest, redisSorted,
                       arrived, clickDocs, clickIndex, clickLost>>

\* the index without the - 1: the rotation starts at the second domain
RandomIndexNoOffset(counter) == counter % Len(domains)

\* getNextRandomDomain: index = (counter - 1) % domains.length
RandomIndex(counter) == (counter - 1) % Len(domains)

\* the spill branch: INCR redirect:domain:counter and the /random URL
SpillIncr(r) ==
    LET q       == req[r]
        counter == IncrResult(redisCounter)
        domain  == domains[RandomIndex(counter) + 1]
    IN  /\ q.pc = "spill"
        /\ redisCounter' = counter
        /\ Commit(r, [q EXCEPT !.domain = domain,
                               !.redirectUrl = "https://" \o domain \o generateRandomPath,
                               !.linkId = "random_" \o domain,
                               !.counter = counter,
                               !.down = FALSE,
                               !.path = "spill",
                               !.pc = "respond"])
        /\ UNCHANGED <<cluster, timeVars, refreshVars, redisVisitor, redisBest, redisSorted, cache,
                       arrived, clickDocs, clickIndex, clickLost>>

(***************************************************************************)
(* redirect(): the steps of a request when a command of the shared cache   *)
(* is rejected                                                             *)
(***************************************************************************)
\* a catch that forgets the in-memory list
SortedOnErrorEmpty(c) == <<>>

\* getSortedDomains, catch: return this.sortedDomainsCache || []
SortedOnError(c) == c.sorted

\* getBestLinksMap, catch: return this.bestLinksMapCache
BestOnError(c) == c.best

\* a request that is no favicon request arrives at controller c and the INCR
\* of its visitor cursor is rejected: the catch answers visit number 1
ArriveDown(c, ip, path, query, maxReq, maxConc) ==
    /\ Arrivals < maxReq
    /\ Cardinality(InFlight) < maxConc
    /\ ~IsFavicon(path)
    /\ arrived' = [arrived EXCEPT ![ip] = @ + 1]
    /\ LET r == CHOOSE x \in Slots \ InFlight : \A y \in Slots \ InFlight : x <= y
           q == [IdleReq EXCEPT !.id = arrived[ip] + 1, !.ctrl = c, !.ip = ip,
                                !.query = query, !.reqUrl = path,
                                !.key = <<ip, HourOf(now)>>, !.visit = 1,
                                !.down = TRUE]
       IN  Commit(r, SortedStage(q))
    /\ UNCHANGED <<cluster, timeVars, refreshVars, redisVisitor, redisCounter, redisBest,
                   redisSorted, cache, clickDocs, clickIndex, clickLost>>

\* EXPIRE is rejected after the first INCR: the catch answers 1, which the
\* INCR had answered; the cursor key stays without expiry
ExpireFail(r) ==
    LET q == req[r] IN
    /\ q.pc = "expire"
    /\ Commit(r, SortedStage(q))
    /\ UNCHANGED <<cluster, timeVars, refreshVars, redisVisitor, redisCounter, redisBest,
                   redisSorted, cache, arrived, clickDocs, clickIndex, clickLost>>

\* GET redirect:sorted_domains is rejected
SortedGetFail(r) ==
    LET q == req[r] IN
    /\ q.pc = "sortedGet"
    /\ Commit(r, SelectStage([q EXCEPT !.sorted = SortedOnError(cache[q.ctrl])]))
    /\ UNCHANGED <<cluster, timeVars, refreshVars, redisVisitor, redisCounter, redisBest,
                   redisSorted, cache, arrived, clickDocs, clickIndex, clickLost>>

\* GET redirect:best_links_map is rejected
BestGetFail(r) ==
    LET q == req[r] IN
    /\ q.pc = "bestGet"
    /\ Commit(r, FallbackStage(q, BestOnError(cache[q.ctrl])))
    /\ UNCHANGED <<cluster, timeVars, refreshVars, redisVisitor, redisCounter, redisBest,
                   redisSorted, cache, arrived, clickDocs, clickIndex, clickLost>>

\* INCR redirect:domain:counter is rejected: the catch of getNextRandomDomain
\* answers domains[Math.floor(Math.random() * domains.length)], any of them
SpillFail(r) ==
    LET q == req[r] IN
    /\ q.pc = "spill"
    /\ \E i \in 1..Len(domains) :
           Commit(r, [q EXCEPT !.domain = domains[i],
                               !.redirectUrl = "https://" \o domains[i] \o generateRandomPath,
                               !.linkId = "random_" \o domains[i],
                               !.path = "spill-random",
                               !.pc = "respond"])
    /\ UNCHANGED <<cluster, timeVars, refreshVars, redisVisitor, redisCounter, redisBest,
                   redisSorted, cache, arrived, clickDocs, clickIndex, clickLost>>

(***************************************************************************)
(* RedirectClickRepository: the unique index and incrementClick            *)
(***************************************************************************)
\* the positions of the documents with link_id = linkId
DocsOf(linkId) == {i \in 1..Len(clickDocs) : clickDocs[i].link_id = linkId}

\* the document findOne / findOneAndUpdate matches: the first in natural order
FirstDoc(linkId) == CHOOSE i \in DocsOf(linkId) : \A j \in DocsOf(linkId) : i <= j

\* $inc: { count: 1 } on document i
IncDoc(i) == [clickDocs EXCEPT ![i].count = @ + 1]

\* the constructor's createIndex({ link_id: 1 }, { unique: true }) completes;
\* nothing awaits it, and it is rejected when duplicates already exist
IndexBuilt ==
    /\ clickIndex = "building"
    /\ clickIndex' = IF \A i, j \in 1..Len(clickDocs) :
                           clickDocs[i].link_id = clickDocs[j].link_id => i = j
                     THEN "built" ELSE "failed"
    /\ UNCHANGED <<cluster, timeVars, refreshVars, redisVars, dispVars, clickTasks, clickDocs, clickLost>>

\* findOneAndUpdate, upsert: the query phase.  A matching document is
\* incremented in place; with none the upsert goes on to insert one
ClickFind(t) ==
    /\ t \in clickTasks /\ t.pc = "find"
    /\ IF DocsOf(t.linkId) # {}
       THEN /\ clickDocs' = IncDoc(FirstDoc(t.linkId))
            /\ clickTasks' = clickTasks \ {t}
       ELSE /\ clickTasks' = (clickTasks \ {t}) \cup {[t EXCEPT !.pc = "insert"]}
            /\ UNCHANGED clickDocs
    /\ UNCHANGED <<cluster, timeVars, refreshVars, redisVars, dispVars, clickIndex, clickLost>>

\* findOneAndUpdate, upsert: the insert phase.  Only the unique index makes
\* the store look again for a document inserted meanwhile
ClickInsert(t) ==
    /\ t \in clickTasks /\ t.pc = "insert"
    /\ clickTasks' = clickTasks \ {t}
    /\ IF clickIndex = "built" /\ DocsOf(t.linkId) # {}
       THEN \* duplicate key: the server retries the upsert as an update, or
            \* (older servers) answers E11000, which .catch(() => {}) swallows
            \/ /\ clickDocs' = IncDoc(FirstDoc(t.linkId))
               /\ UNCHANGED clickLost
            \/ /\ clickLost' = clickLost + 1
               /\ UNCHANGED clickDocs
       ELSE /\ clickDocs' = Append(clickDocs, [link_id |-> t.linkId, count |-> 1])
            /\ UNCHANGED clickLost
    /\ UNCHANGED <<cluster, timeVars, refreshVars, redisVars, dispVars, clickIndex>>

\* a click write that is awaited inside the try of redirect(): its failure
\* reaches the catch, which answers with the emergency URL
ClickFailAwaited(t) ==
    /\ t \in clickTasks
    /\ clickTasks' = clickTasks \ {t}
    /\ clickLost' = clickLost + 1
    /\ served' = {IF e.ip = t.ip /\ e.id = t.id
                  THEN [e EXCEPT !.location = EmergencyUrl, !.path = "error"] ELSE e
                  : e \in served}
    /\ UNCHANGED <<cluster, timeVars, refreshVars, redisVars, cache, req, arrived,
                   clickDocs, clickIndex>>

\* the click write fails (store unreachable): .catch(() => {})
ClickFail(t) ==
    /\ t \in clickTasks
    /\ clickTasks' = clickTasks \ {t}
    /\ clickLost' = clickLost + 1
    /\ UNCHANGED <<cluster, timeVars, refreshVars, redisVars, dispVars, clickDocs, clickIndex>>

(***************************************************************************)
(* executeProcessInternal: the steps of one refresh run of controller c    *)
(***************************************************************************)
\* getAllLinks(1000, 0): the limit of the listing
LINK_LIST_LIMIT == 1000

RECURSIVE ActiveFrom(_, _, _)
\* the ids (positions) of the active documents among those from low to i,
\* newest first
ActiveFrom(ls, i, low) ==
    IF i < low THEN <<>>
    ELSE (IF ls[i].status THEN <<i>> ELSE <<>>) \o ActiveFrom(ls, i - 1, low)

\* getAllLinks(1000, 0) filtered by link.status === true: the newest 1000
\* documents in created_at descending order, the active ones of them
ActiveLinks(ls) ==
    ActiveFrom(ls, Len(ls), IF Len(ls) > LINK_LIST_LIMIT
                            THEN Len(ls) - LINK_LIST_LIMIT + 1 ELSE 1)

\* a lookup that never matches
FindLinkNone(ls, domain, url) == 0

\* getLinkByDomainAndUrl: the first matching document, 0 if none
FindLink(ls, domain, url) ==
    IF \E k \in 1..Len(ls) : ls[k].domain = domain /\ ls[k].url = url
    THEN CHOOSE k \in 1..Len(ls) :
             /\ ls[k].domain = domain /\ ls[k].url = url
             /\ \A j \in 1..Len(ls) : (ls[j].domain = domain /\ ls[j].url = url) => k <= j
    ELSE 0

\* the run goes on to its next best entry, or returns after the last
NextEntry(r) == IF r.i > Len(r.best) THEN IdleRun ELSE [r EXCEPT !.pc = "lookup"]

\* controller c's run r goes on as r2; if that is its return, it returns
\* bestByDomain and the end is recorded
GoOn(c, r, r2, fault) ==
    /\ run' = [run EXCEPT ![c] = r2]
    /\ lastEnd' = IF r2.pc = "idle" THEN Ended(c, r.data, "map", fault) ELSE lastEnd

\* the test for an empty result left out: a run goes on with no rows
NoRowsIgnored(data) == FALSE

\* !Array.isArray(data) || data.length === 0
NoRows(data) == Len(data) = 0

\* the day of instant t in UTC, counted from the epoch: the calendar date
\* toISOString().split('T')[0] writes
IsoDate(t) == t \div 86400

\* getFullYear(), getMonth(), getDate(): the day of instant t on the host's
\* clock, tz seconds east of UTC
LocalDate(t, tz) == (t + tz) \div 86400

\* new Date(year, month, day): the instant that day begins on the host's clock
LocalMidnight(day, tz) == day * 86400 - tz

\* filterRequest.start and .end: today.toISOString().split('T')[0], today
\* being the start of the host's current day
QueryDate(t, tz) == IsoDate(LocalMidnight(LocalDate(t, tz), tz))

\* no run is in progress and the last one that returned had the rows data
AfterSame(data) ==
    /\ \A c \in Ctrls : run[c].pc = "idle"
    /\ lastEnd.n > 0
    /\ lastEnd.data = data

\* the run starts and superFilterService.execute answers data: with no rows
\* the run returns null, otherwise the loop builds bestByDomain
Aggregate(c, data) ==
    /\ run[c].pc = "idle"
    /\ refreshes < MaxRuns
    /\ CanRun(c)
    /\ refreshes' = refreshes + 1
    /\ LET bestByDomain == BuildBestByDomain(data) IN
       IF NoRows(data)
       THEN /\ lastEnd' = Ended(c, data, "null", "none")
            /\ UNCHANGED run
       ELSE /\ run' = [run EXCEPT ![c] =
                         [IdleRun EXCEPT !.data = data,
                                         !.best = bestByDomain,
                                         !.prev = cache[c],
                                         !.today = QueryDate(now, cluster.tz),
                                         !.start = IF AfterSame(data)
                                                   THEN [best |-> redisBest,
                                                         sorted |-> redisSorted,
                                                         links |-> links]
                                                   ELSE NoStart,
                                         !.pc = IF Len(bestByDomain) > 0
                                                THEN "setBest" ELSE "list"]]
            /\ UNCHANGED lastEnd
    /\ UNCHANGED <<cluster, timeVars, redisVars, dispVars, clickVars, links, pubData>>

\* the run starts and the analytics read fails: superFilterService.execute
\* rejects and executeProcessInternal throws
AggregateFail(c) ==
    /\ run[c].pc = "idle"
    /\ refreshes < MaxRuns
    /\ CanRun(c)
    /\ refreshes' = refreshes + 1
    /\ lastEnd' = Ended(c, <<>>, "throws", "read")
    /\ UNCHANGED <<cluster, timeVars, redisVars, dispVars, clickVars, run, links, pubData>>

\* SET redirect:best_links_map EX 3600, then the in-memory map and the sort.
\* JSON.stringify / JSON.parse keep the entries (strings and finite numbers)
\* and their order, so the key holds the entries themselves
SetBest(c) ==
    LET r == run[c] IN
    /\ r.pc = "setBest"
    /\ redisBest' = KeySet(r.best, RANKING_TTL)
    /\ cache' = [cache EXCEPT ![c].best = r.best, ![c].bestTime = now]
    /\ pubData' = r.data
    /\ run' = [run EXCEPT ![c].sorted = SortedDomainsOf(r.best), ![c].pc = "setSorted"]
    /\ UNCHANGED <<cluster, timeVars, redisVisitor, redisCounter, redisSorted, redisRecent,
                   req, arrived, served, clickVars, links, refreshes, lastEnd>>

\* SET redirect:sorted_domains EX 3600, then the in-memory list
SetSorted(c) ==
    LET r == run[c] IN
    /\ r.pc = "setSorted"
    /\ redisSorted' = KeySet(r.sorted, RANKING_TTL)
    /\ cache' = [cache EXCEPT ![c].sorted = r.sorted, ![c].sortedTime = now]
    /\ run' = [run EXCEPT ![c].pc = "list"]
    /\ UNCHANGED <<cluster, timeVars, redisVisitor, redisCounter, redisBest, redisRecent,
                   req, arrived, served, clickVars, links, refreshes, pubData, lastEnd>>

\* one of the two SETs is rejected: the await throws, nothing after it in
\* executeProcessInternal runs, and what ran before it stays done
SetFail(c) ==
    LET r == run[c] IN
    /\ r.pc \in {"setBest", "setSorted"}
    /\ run' = [run EXCEPT ![c] = IdleRun]
    /\ lastEnd' = Ended(c, r.data, "throws", "cache")
    /\ UNCHANGED <<cluster, timeVars, redisVars, dispVars, clickVars, links, refreshes,
                   pubData>>

\* getAllLinks(1000, 0) answers: the active ones are to be deactivated
ListLinks(c) ==
    LET r    == run[c]
        todo == ActiveLinks(links)
    IN  /\ r.pc = "list"
        /\ GoOn(c, r, IF todo = <<>> THEN NextEntry([r EXCEPT !.i = 1])
                      ELSE [r EXCEPT !.todo = todo, !.pc = "deactivate"], r.fault)
        /\ UNCHANGED <<cluster, timeVars, redisVars, dispVars, clickVars, links, refreshes,
                       pubData>>

\* updateLink(id, { status: false }) of the next listed link
Deactivate(c) ==
    LET r == run[c] IN
    /\ r.pc = "deactivate"
    /\ links' = [links EXCEPT ![Head(r.todo)].status = FALSE]
    /\ GoOn(c, r, IF Tail(r.todo) = <<>> THEN NextEntry([r EXCEPT !.todo = <<>>, !.i = 1])
                  ELSE [r EXCEPT !.todo = Tail(r.todo)], r.fault)
    /\ UNCHANGED <<cluster, timeVars, redisVars, dispVars, clickVars, refreshes, pubData>>

\* getLinkByDomainAndUrl(domain, info.url) of the next best entry answers
Lookup(c) ==
    LET r == run[c] IN
    /\ r.pc = "lookup"
    /\ run' = [run EXCEPT ![c].existing = FindLink(links, r.best[r.i].domain,
                                                   r.best[r.i].url),
                          ![c].pc = "apply"]
    /\ UNCHANGED <<cluster, timeVars, redisVars, dispVars, clickVars, links, refreshes,
                   pubData, lastEnd>>

\* updateLink(existing, { status: true }), or createLink with status true
Apply(c) ==
    LET r == run[c]
        e == r.best[r.i]
    IN  /\ r.pc = "apply"
        /\ links' = IF r.existing > 0
                    THEN [links EXCEPT ![r.existing].status = TRUE]
                    ELSE Append(links, [domain |-> e.domain, url |-> e.url,
                                        status |-> TRUE])
        /\ GoOn(c, r, NextEntry([r EXCEPT !.i = @ + 1, !.existing = 0]), r.fault)
        /\ UNCHANGED <<cluster, timeVars, redisVars, dispVars, clickVars, refreshes, pubData>>

\* the catch of the reconciliation rethrows: the run ends with the error
CatchRethrows == "throws"

\* catch (error) { console.error(...) } around the reconciliation, then
\* return bestByDomain: the run ends with its map
CatchResult == "map"

\* getAllLinks, getLinkByDomainAndUrl or createLink rejects: the catch ends
\* the reconciliation where it stands
LinkFail(c) ==
    LET r == run[c] IN
    /\ r.pc \in {"list", "lookup"} \/ (r.pc = "apply" /\ r.existing = 0)
    /\ run' = [run EXCEPT ![c] = IdleRun]
    /\ lastEnd' = Ended(c, r.data, CatchResult, "links")
    /\ UNCHANGED <<cluster, timeVars, redisVars, dispVars, clickVars, links, refreshes,
                   pubData>>

\* updateOne rejects inside updateLink, which catches and answers false;
\* nothing reads the answer: the link keeps its status and the loop goes on
UpdateFail(c) ==
    LET r == run[c] IN
    /\ \/ /\ r.pc = "deactivate"
          /\ GoOn(c, r, IF Tail(r.todo) = <<>>
                        THEN NextEntry([r EXCEPT !.todo = <<>>, !.i = 1, !.fault = "links"])
                        ELSE [r EXCEPT !.todo = Tail(r.todo), !.fault = "links"], "links")
       \/ /\ r.pc = "apply" /\ r.existing > 0
          /\ GoOn(c, r, NextEntry([r EXCEPT !.i = @ + 1, !.existing = 0,
                                            !.fault = "links"]), "links")
    /\ UNCHANGED <<cluster, timeVars, redisVars, dispVars, clickVars, links, refreshes,
                   pubData>>

(***************************************************************************)
(* Time                                                                    *)
(***************************************************************************)
\* the clock advances by d seconds: by a minute the in-memory copies go
\* stale, by an hour the hour of the cursor key changes and the ranking keys
\* expire
Tick(d) ==
    /\ ticks < MaxTicks
    /\ now' = now + d
    /\ ticks' = ticks + 1
    /\ UNCHANGED <<cluster, redisVars, dispVars, clickVars, refreshVars>>

(***************************************************************************)
(* Initial states: a running deployment before the requests of interest    *)
(***************************************************************************)
Row(d, v, e) == [domain |-> d, custom_value |-> v, ecpm |-> e]

\* analytics results a past refresh may have published
ScenarioData == <<Row(domains[1], "1", 500), Row(domains[2], "2", 1000)>>
FullData ==
    <<Row(domains[3], "31", 300), Row(domains[1], "11", 500),
      Row(domains[4], "41", 300), Row(domains[2], "21", 1000),
      Row(domains[1], "12", 400)>>
SingleData == <<Row(domains[3], "7", 200)>>

\* half past midnight of some day: the clock value is large, as Date.now() is
StartTime == 24 * 3600 + 1800

\* a ranking key written by a refresh half an hour earlier
Published(v) == [present |-> TRUE, val |-> v, exp |-> StartTime + 1800]

\* the two ranking keys after a refresh over data d
BothKeys(d) ==
    <<Published(BuildBestByDomain(d)), Published(SortedDomainsOf(BuildBestByDomain(d)))>>

\* the map written and the list not yet: the state between the two SETs
MapOnly(d) == <<Published(BuildBestByDomain(d)), KeyAbsent>>

\* no ranking key: never written, or expired
NoKeys == <<KeyAbsent, KeyAbsent>>

\* the state of one process and of the stores it uses
InitProcess(counter, rankings, indexStates, linkStores) ==
    /\ now = StartTime
    /\ ticks = 0
    /\ redisVisitor = <<>>
    /\ redisCounter = counter
    /\ \E rk \in rankings : redisBest = rk[1] /\ redisSorted = rk[2]
    /\ redisRecent = <<>>
    /\ cache = [c \in Ctrls |-> NoCache]
    /\ req = [r \in Slots |-> IdleReq]
    /\ arrived = [ip \in IPs |-> 0]
    /\ served = {}
    /\ clickTasks = {}
    /\ clickDocs = <<>>
    /\ clickIndex \in indexStates
    /\ clickLost = 0
    /\ run = [c \in Ctrls |-> IdleRun]
    /\ links \in linkStores
    /\ refreshes = 0
    /\ pubData = <<>>
    /\ lastEnd = NoEnd

\* the same in an unclustered deployment
InitWith(counter, rankings, indexStates, linkStores) ==
    /\ InitProcess(counter, rankings, indexStates, linkStores)
    /\ cluster = SoleProcess

\* the replies of the shared cache that resume a request
Replies ==
    \/ \E r \in Slots : ExpireVisitor(r)
    \/ \E r \in Slots : SortedGet(r)
    \/ \E r \in Slots : BestGet(r)
    \/ \E r \in Slots : SpillIncr(r)

(***************************************************************************)
(* Spec: concurrent dispatch of two clients within one clock hour          *)
(***************************************************************************)
Init ==
    InitWith(0, {NoKeys, MapOnly(ScenarioData), BothKeys(ScenarioData),
                 BothKeys(SingleData), BothKeys(FullData)}, {"built"}, {NoLinks})

Next ==
    \/ \E ip \in IPs : Arrive(1, ip, "/", NoQuery, MaxReq, MaxConc)
    \/ Replies

Spec == Init /\ [][Next]_vars

(***************************************************************************)
(* SpecHours: the same, the clock passing hour boundaries                  *)
(***************************************************************************)
InitHours == InitWith(0, {BothKeys(SingleData)}, {"built"}, {NoLinks})

NextHours ==
    \/ \E ip \in IPs : Arrive(1, ip, "/", NoQuery, MaxHourReq, MaxConc)
    \/ Replies
    \/ Tick(3600)

SpecHours == InitHours /\ [][NextHours]_vars

\* the steps of the click store
ClickSteps ==
    \/ IndexBuilt
    \/ \E t \in clickTasks : ClickFind(t)
    \/ \E t \in clickTasks : ClickInsert(t)
    \/ \E t \in clickTasks : ClickFail(t)

(***************************************************************************)
(* SpecScenario: one new client, list [dopeaaps.com (post 2, eCPM 10),     *)
(* useuapp.com (post 1, eCPM 5)], spill counter 0, clicks recorded         *)
(***************************************************************************)
InitScenario == InitWith(0, {BothKeys(ScenarioData)}, {"building", "built"}, {NoLinks})

\* the three dispatches of the scenario and nothing else; the list being
\* published, no request reads the map: BestGet has no part
NextScenario ==
    \/ Arrive(1, "1.2.3.4", "/", NoQuery, 3, MaxConc)
    \/ \E r \in Slots : ExpireVisitor(r)
    \/ \E r \in Slots : SortedGet(r)
    \/ \E r \in Slots : SpillIncr(r)
    \/ ClickSteps

SpecScenario == InitScenario /\ [][NextScenario]_vars

(***************************************************************************)
(* SpecClicks: two clients, the clicks recorded while the unique index of  *)
(* the click store may still be building                                   *)
(***************************************************************************)
InitClicks == InitWith(0, {NoKeys, BothKeys(SingleData)}, {"building", "built"}, {NoLinks})

NextClicks ==
    \/ \E ip \in IPs : Arrive(1, ip, "/", NoQuery, MaxClickReq, MaxConc)
    \/ Replies
    \/ ClickSteps

SpecClicks == InitClicks /\ [][NextClicks]_vars

(***************************************************************************)
(* SpecHigh: the spill counter close to one million                        *)
(***************************************************************************)
InitHigh == InitWith(999999, {BothKeys(SingleData), NoKeys}, {"built"}, {NoLinks})

SpecHigh == InitHigh /\ [][Next]_vars

(***************************************************************************)
(* SpecRefresh: refresh runs of the two controllers createApp constructs   *)
(* (start-up run, minute-30 cron, GET /api/process), possibly overlapping, *)
(* over analytics results that may change from run to run                  *)
(***************************************************************************)
\* rows as superFilterService.execute returns them: ecpm is always set
\* (preResultApi), domain and custom_value may be missing or empty
DataA ==
    <<Row(domains[3], "31", 300), Row(domains[1], "11", 500),
      Row(domains[1], "12", 500), Row(domains[2], "2 1", 1000),
      Row(domains[4], "41", 0), Row(domains[4], "42", 0),
      Row("", "9", 900), [domain |-> domains[3], ecpm |-> 950],
      Row(domains[1], "13", 400)>>
DataB == <<Row(domains[2], "2", 300), Row(domains[1], "1", 500), Row(domains[2], "3", 1000)>>
DataC == <<Row("", "9", 900), Row(domains[1], "", 100)>>

AnalyticsResults == {<<>>, DataA, DataB, DataC}

\* link records left by earlier runs
OldLinks ==
    <<[domain |-> domains[1], url |-> BestUrl(domains[1], "1"), status |-> TRUE],
      [domain |-> domains[2], url |-> BestUrl(domains[2], "9"), status |-> TRUE]>>

InitRefresh == InitWith(0, {NoKeys, BothKeys(ScenarioData)}, {"built"}, {NoLinks, OldLinks})

NextRefresh ==
    \/ \E c \in Ctrls, data \in AnalyticsResults : Aggregate(c, data)
    \/ \E c \in Ctrls : SetBest(c)
    \/ \E c \in Ctrls : SetSorted(c)
    \/ \E c \in Ctrls : ListLinks(c)
    \/ \E c \in Ctrls : Deactivate(c)
    \/ \E c \in Ctrls : Lookup(c)
    \/ \E c \in Ctrls : Apply(c)

SpecRefresh == InitRefresh /\ [][NextRefresh]_vars

(***************************************************************************)
(* SpecFaults: the same runs, where the analytics read, either SET and any *)
(* command of the link store may fail                                      *)
(***************************************************************************)
\* analytics results of the runs that may fail
FaultResults == {<<>>, DataB}

InitFaults == InitWith(0, {BothKeys(ScenarioData)}, {"built"}, {OldLinks})

NextFaults ==
    \/ \E c \in Ctrls, data \in FaultResults : Aggregate(c, data)
    \/ \E c \in Ctrls : AggregateFail(c)
    \/ \E c \in Ctrls : SetBest(c)
    \/ \E c \in Ctrls : SetSorted(c)
    \/ \E c \in Ctrls : SetFail(c)
    \/ \E c \in Ctrls : ListLinks(c)
    \/ \E c \in Ctrls : Deactivate(c)
    \/ \E c \in Ctrls : Lookup(c)
    \/ \E c \in Ctrls : Apply(c)
    \/ \E c \in Ctrls : LinkFail(c)
    \/ \E c \in Ctrls : UpdateFail(c)

SpecFaults == InitFaults /\ [][NextFaults]_vars

(***************************************************************************)
(* SpecErrors: dispatch of one client, one request at a time, where any    *)
(* command of the shared cache may be rejected, with favicon requests, a   *)
(* repeated language parameter and a published entry whose domain is no    *)
(* host name                                                               *)
(***************************************************************************)
\* an analytics result with a domain that new URL() rejects
BadHostData == <<Row("bad host.com", "5", 700)>>

\* requests: the raw URL and its parsed query string
ErrRequests ==
    {<<"/", NoQuery>>,
     <<"/favicon.ico", NoQuery>>,
     <<"/?utm_source=favicon", [NoQuery EXCEPT !.utm_source = "favicon"]>>,
     <<"/?language=es&language=fr",
       [NoQuery EXCEPT !.language = "es,fr", !.languageRepeated = TRUE]>>}

InitErrors ==
    InitWith(0, {NoKeys, MapOnly(ScenarioData), BothKeys(SingleData),
                 BothKeys(BadHostData)}, {"built"}, {NoLinks})

NextErrors ==
    \/ \E rq \in ErrRequests : Arrive(1, "1.2.3.4", rq[1], rq[2], MaxFaultReq, 1)
    \/ \E rq \in ErrRequests : ArriveDown(1, "1.2.3.4", rq[1], rq[2], MaxFaultReq, 1)
    \/ Replies
    \/ \E r \in Slots : ExpireFail(r)
    \/ \E r \in Slots : SortedGetFail(r)
    \/ \E r \in Slots : BestGetFail(r)
    \/ \E r \in Slots : SpillFail(r)

SpecErrors == InitErrors /\ [][NextErrors]_vars

(***************************************************************************)
(* SpecOutage: dispatch of one client, one request at a time, where any    *)
(* command of the shared cache may be rejected and the in-memory copies    *)
(* may outlive CACHE_TTL_MS                                                *)
(***************************************************************************)
InitOutage ==
    InitWith(0, {NoKeys, MapOnly(ScenarioData), BothKeys(SingleData)}, {"built"},
             {NoLinks})

NextOutage ==
    \/ Arrive(1, "1.2.3.4", "/", NoQuery, MaxFaultReq, 1)
    \/ ArriveDown(1, "1.2.3.4", "/", NoQuery, MaxFaultReq, 1)
    \/ Replies
    \/ \E r \in Slots : ExpireFail(r)
    \/ \E r \in Slots : SortedGetFail(r)
    \/ \E r \in Slots : BestGetFail(r)
    \/ \E r \in Slots : SpillFail(r)
    \/ Tick(60)

SpecOutage == InitOutage /\ [][NextOutage]_vars

(***************************************************************************)
(* SpecCluster: the processes of a deployment, clustered or not, and the   *)
(* refresh runs of one of them                                             *)
(***************************************************************************)
\* the worker the manager forks next: ids are handed out in order and never
\* reused
NextWorkerId == WorkerCount + cluster.forks + 1

\* setupCluster in the manager: WORKER_COUNT workers forked, none has run its
\* callback yet; self is the worker whose refresh runs are followed, one of
\* the first workers or a later replacement
ClusterStart(self) ==
    [enabled |-> TRUE, self |-> self, forks |-> 0, db |-> TRUE, tz |-> 0,
     workers |-> [w \in WorkerIds |-> IF w \in 1..WorkerCount THEN "forked" ELSE "none"]]

\* worker w runs the callback of setupCluster: createApp constructs its
\* controllers
WorkerStart(w) ==
    /\ cluster.workers[w] = "forked"
    /\ cluster' = [cluster EXCEPT !.workers[w] = "online"]
    /\ UNCHANGED <<timeVars, redisVars, dispVars, clickVars, refreshVars>>

\* worker w exits and the manager's 'exit' listener forks a new worker; what
\* the process held in memory is gone with it
WorkerExit(w) ==
    /\ cluster.enabled
    /\ cluster.forks < MaxExits
    /\ cluster.workers[w] \in {"forked", "online"}
    /\ cluster' = [cluster EXCEPT !.workers[w] = "dead",
                                  !.workers[NextWorkerId] = "forked",
                                  !.forks = @ + 1]
    /\ IF w = cluster.self
       THEN /\ run' = [c \in Ctrls |-> IdleRun]
            /\ cache' = [c \in Ctrls |-> NoCache]
       ELSE UNCHANGED <<run, cache>>
    /\ UNCHANGED <<timeVars, redisVars, req, arrived, served, clickVars, links,
                   refreshes, pubData, lastEnd>>

InitCluster ==
    /\ InitProcess(0, {NoKeys}, {"built"}, {NoLinks})
    /\ cluster \in {SoleProcess} \cup {ClusterStart(w) : w \in 1..(WorkerCount + MaxExits)}

NextCluster ==
    \/ \E w \in WorkerIds : WorkerStart(w)
    \/ \E w \in WorkerIds : WorkerExit(w)
    \/ \E c \in Ctrls : Aggregate(c, DataB)
    \/ \E c \in Ctrls : SetBest(c)
    \/ \E c \in Ctrls : SetSorted(c)
    \/ \E c \in Ctrls : ListLinks(c)
    \/ \E c \in Ctrls : Deactivate(c)
    \/ \E c \in Ctrls : Lookup(c)
    \/ \E c \in Ctrls : Apply(c)

SpecCluster == InitCluster /\ [][NextCluster]_vars

(***************************************************************************)
(* Properties: the visitor cursor                                          *)
(***************************************************************************)
\* the redirects answered so far
Redirects == {e \in served : e.status = 302}

\* the dispatches that took a visit number under visitor_count:<ip>:<h>, as
\* <<request, visit>>: the answered ones and those still in flight
Dispatches(ip, h) ==
    {<<e.id, e.visit>> : e \in {x \in Redirects : x.ip = ip /\ x.hour = h}}
    \cup {<<req[r].id, req[r].visit>> : r \in {x \in InFlight : req[x].key = <<ip, h>>}}

\* C1: for every client IP and clock hour, whatever the interleaving, the
\* visit numbers the dispatches obtained are exactly 1, 2, 3, ... (no gap, no
\* number obtained twice, so two concurrent requests of one IP never share
\* one), and during the hour the stored cursor equals the number of dispatches
C1_VisitNumbersSequential ==
    \A ip \in IPs, h \in 0..23 :
        LET D == Dispatches(ip, h) IN
        /\ {p[2] : p \in D} = 1..Cardinality(D)
        /\ \A p1, p2 \in D : p1[2] = p2[2] => p1 = p2
        /\ h = HourOf(now) => Cursor(<<ip, h>>) = Cardinality(D)

\* two requests of one IP in flight together, holding visits 1 and 2, in the
\* hour after the one the behaviour started in
C1_Witness ==
    \E r1, r2 \in InFlight :
        /\ req[r1].key = req[r2].key
        /\ req[r1].key[2] = HourOf(StartTime) + 1
        /\ req[r1].visit = 1 /\ req[r2].visit = 2

(***************************************************************************)
(* Properties: the three-way selection                                     *)
(***************************************************************************)
\* the values the two ranking keys hold for a reader
PublishedSorted == IF Live(redisSorted) THEN redisSorted.val ELSE <<>>
PublishedBest == IF Live(redisBest) THEN redisBest.val ELSE <<>>

Registry == {domains[i] : i \in 1..Len(domains)}

\* the response e is a /random spill to some registry domain
IsSpill(e) ==
    /\ e.path = "spill"
    /\ e.domain \in Registry
    /\ e.url = "https://" \o e.domain \o "/random"
    /\ e.linkId = "random_" \o e.domain

\* C3: with a published list of length N > 0, the dispatch with visit number
\* v <= N selects exactly sortedDomains[v-1] (domain and url) with linkId
\* best_<domain>_<postId>, v = N being the last element, and the dispatch
\* with v = N+1 takes the spill path
C3_RankedSelection ==
    \A e \in Redirects :
        LET s == PublishedSorted
            N == Len(s)
            v == e.visit
        IN  N > 0 =>
              /\ e.sorted = s
              /\ v >= 1
              /\ v <= N => /\ e.domain = s[v].domain
                           /\ e.url = s[v].url
                           /\ e.linkId = "best_" \o s[v].domain \o "_" \o s[v].postId
              /\ v = N + 1 => IsSpill(e)

\* one IP went through a list of four: its fourth visit took the last
\* element and its fifth the spill
C3_Witness ==
    /\ Len(PublishedSorted) = 4
    /\ \E e1, e2 \in Redirects :
           /\ e1.ip = e2.ip
           /\ e1.visit = 4 /\ e1.domain = PublishedSorted[4].domain
           /\ e2.visit = 5 /\ e2.path = "spill"

\* C4: with an empty list and the registry of 4 domains, the dispatch with
\* visit number v in 1..4 selects registry[v-1]: the domain's entry of the
\* published map with linkId best_<domain>_<postId> if there is one,
\* otherwise https://<domain>/random with linkId fallback_<domain>; the fifth
\* visit takes the /random spill
C4_RegistryFallback ==
    /\ Len(domains) = 4
    /\ \A e \in Redirects :
           LET v == e.visit
               m == PublishedBest
               entries == {i \in 1..Len(m) : m[i].domain = e.domain}
           IN  PublishedSorted = <<>> =>
                 /\ e.sorted = <<>>
                 /\ v \in 1..4 =>
                      /\ e.domain = domains[v]
                      /\ Cardinality(entries) <= 1
                      /\ \A i \in entries :
                             /\ e.url = m[i].url
                             /\ e.linkId = "best_" \o e.domain \o "_" \o m[i].postId
                      /\ entries = {} =>
                             /\ e.url = "https://" \o e.domain \o "/random"
                             /\ e.linkId = "fallback_" \o e.domain
                 /\ v = 5 => IsSpill(e)

\* one IP made five visits with no list published: one answered from the
\* map, one by the registry fallback, the fifth by the spill
C4_Witness ==
    /\ PublishedSorted = <<>>
    /\ \E e1, e2, e5 \in Redirects :
           /\ e1.ip = e5.ip /\ e2.ip = e5.ip
           /\ e1.visit <= 4 /\ e1.linkId = "best_" \o e1.domain \o "_" \o "1"
           /\ e2.visit <= 4 /\ e2.linkId = "fallback_" \o e2.domain
           /\ e5.visit = 5 /\ e5.path = "spill"

\* the responses of the spill path
Spills == {e \in Redirects : e.path = "spill"}

\* C5: every spill dispatch increments redirect:domain:counter atomically
\* and selects registry[(counter-1) mod len] with URL https://<domain>/random
\* and linkId random_<domain>; so the k-th spill in INCR order goes to
\* registry[(k-1) mod len], and len consecutive spills hit every registry
\* domain exactly once
C5_SpillRotation ==
    /\ \A e \in Spills :
           /\ IsSpill(e)
           /\ e.domain = domains[((e.counter - 1) % Len(domains)) + 1]
    /\ redisCounter = Cardinality(Spills)
    /\ {e.counter : e \in Spills} = 1..Cardinality(Spills)
    /\ \A k \in 1..redisCounter :
           k + Len(domains) - 1 <= redisCounter =>
               LET cycle == {e \in Spills : e.counter \in k..(k + Len(domains) - 1)} IN
               /\ Cardinality(cycle) = Len(domains)
               /\ \A d \in Registry : Cardinality({e \in cycle : e.domain = d}) = 1

\* five spills happened: the fifth wrapped round to registry[0]
C5_Witness == \E e \in Spills : e.counter = 5 /\ e.domain = domains[1]

(***************************************************************************)
(* Properties: the worked scenario                                         *)
(***************************************************************************)
\* C2: from registry [A, B, C, D] = [useuapp.com, dopeaaps.com, ...], list
\* [B (post 2, eCPM 10), A (post 1, eCPM 5)], no cursor and spill counter 0,
\* the first three dispatches of one IP without language or UTM parameters
\* select, in this order, best_B_2 at https://B/?p=2 (visit 1), best_A_1 at
\* https://A/?p=1 (visit 2), and the spill with the counter advancing to 1
\* and random_A at https://A/random (visit 3); the Location carries the
\* default UTM parameters
C2_Scenario ==
    \A e \in Redirects :
        /\ e.id = 1 =>
             /\ e.visit = 1
             /\ e.linkId = "best_dopeaaps.com_2"
             /\ e.url = "https://dopeaaps.com/?p=2"
             /\ e.location = "https://dopeaaps.com/?p=2&utm_source=redron"
                             \o "&utm_medium=broadcast&utm_campaign=best_dopeaaps.com_2"
        /\ e.id = 2 =>
             /\ e.visit = 2
             /\ e.linkId = "best_useuapp.com_1"
             /\ e.url = "https://useuapp.com/?p=1"
             /\ e.location = "https://useuapp.com/?p=1&utm_source=redron"
                             \o "&utm_medium=broadcast&utm_campaign=best_useuapp.com_1"
        /\ e.id = 3 =>
             /\ e.visit = 3
             /\ e.path = "spill"
             /\ e.counter = 1
             /\ redisCounter >= 1
             /\ e.linkId = "random_useuapp.com"
             /\ e.url = "https://useuapp.com/random"
             /\ e.location = "https://useuapp.com/random?utm_source=redron"
                             \o "&utm_medium=broadcast&utm_campaign=random_useuapp.com"

\* the three dispatches have been answered
C2_Witness ==
    /\ \A i \in 1..3 : \E e \in Redirects : e.id = i /\ e.ip = "1.2.3.4"
    /\ redisCounter = 1

(***************************************************************************)
(* Properties: the spill counter near one million                          *)
(***************************************************************************)
\* C6: the stored spill counter never stays above 1,000,000: the dispatch
\* whose INCR yields 1,000,001 selects registry[0] and resets the stored
\* counter to 1, so that the stored value is at most 1,000,000 after every
\* completed dispatch, concurrent crossings included
C6_CounterReset ==
    /\ redisCounter <= 1000000
    /\ \A e \in Spills : e.counter = 1000001 => e.domain = domains[1]

(***************************************************************************)
(* Properties: the click store                                             *)
(***************************************************************************)
\* the link ids dispatched so far
DispatchedLinks == {e.linkId : e \in Redirects}

\* the number of dispatches that selected linkId
DispatchCount(linkId) == Cardinality({e \in Redirects : e.linkId = linkId})

\* getClickCount(linkId): the count of the record findOne matches, 0 if none
ClickCount(linkId) ==
    IF DocsOf(linkId) = {} THEN 0 ELSE clickDocs[FirstDoc(linkId)].count

\* C7: the click count of every linkId is at most the number of dispatches
\* that selected it; and when no click write has failed and every detached
\* write has completed, every dispatched linkId has a record whose count is
\* exactly the number of dispatches that selected it
C7_ClickCounts ==
    \A linkId \in DispatchedLinks :
        /\ ClickCount(linkId) <= DispatchCount(linkId)
        /\ (clickLost = 0 /\ clickTasks = {}) =>
               /\ DocsOf(linkId) # {}
               /\ ClickCount(linkId) = DispatchCount(linkId)

\* C8: the click store holds at most one document per link_id in every
\* reachable state, also when first-time incrementClick calls for one linkId
\* run concurrently right after the repository was constructed
C8_OneDocumentPerLink ==
    \A i, j \in 1..Len(clickDocs) :
        clickDocs[i].link_id = clickDocs[j].link_id => i = j

(***************************************************************************)
(* Properties: the refresher                                               *)
(***************************************************************************)
\* the rows of data that have a non-empty domain and custom_value
ValidRows(data) ==
    {i \in 1..Len(data) :
        /\ "domain" \in DOMAIN data[i] /\ data[i].domain # ""
        /\ "custom_value" \in DOMAIN data[i] /\ data[i].custom_value # ""}

\* the eCPM of row i, a missing one counting as 0
RowEcpm(data, i) == IF "ecpm" \in DOMAIN data[i] THEN data[i].ecpm ELSE 0

\* the row that wins domain d: strictly greatest eCPM, the first of equals
Winner(data, d) ==
    LET rows == {i \in ValidRows(data) : data[i].domain = d} IN
    CHOOSE i \in rows :
        \A j \in rows : \/ RowEcpm(data, j) < RowEcpm(data, i)
                        \/ RowEcpm(data, j) = RowEcpm(data, i) /\ i <= j

\* map m is the best-link map of the analytics result data
IsBestLinkMap(m, data) ==
    LET doms == {data[i].domain : i \in ValidRows(data)} IN
    /\ \A d \in doms : Cardinality({k \in 1..Len(m) : m[k].domain = d}) = 1
    /\ \A k \in 1..Len(m) :
           /\ m[k].domain \in doms
           /\ LET w == data[Winner(data, m[k].domain)] IN
              /\ m[k].postId = w.custom_value
              /\ m[k].ecpm = w.ecpm
              /\ m[k].url = "https://" \o m[k].domain \o "/?p="
                            \o encodeURIComponent(w.custom_value)

\* C9: the BestLinkMap a refresh over a non-empty analytics result builds
\* and publishes has exactly one entry for every domain occurring in a row
\* with non-empty domain and custom_value (and no other entry); its postId is
\* that of the row with the strictly greatest ecpm of the domain, the
\* first-seen row winning among equals (a missing ecpm would count as 0; the
\* aggregation always sets it), and its url is
\* https://<domain>/?p=<urlencode(postId)>
C9_BestLinkPerDomain ==
    /\ \A c \in Ctrls : run[c].pc # "idle" => IsBestLinkMap(run[c].best, run[c].data)
    /\ pubData # <<>> => IsBestLinkMap(redisBest.val, pubData)

\* the map of DataA is published: useuapp.com has three rows, two of them
\* tied at the top, and the post id of dopeaaps.com needs escaping
C9_Witness ==
    /\ pubData = DataA
    /\ \E k \in 1..Len(redisBest.val) :
           /\ redisBest.val[k].domain = "useuapp.com"
           /\ redisBest.val[k].postId = "11"
    /\ \E k \in 1..Len(redisBest.val) :
           redisBest.val[k].url = "https://dopeaaps.com/?p=2%201"

\* the two ranking keys agree: the list holds exactly the entries of the
\* map, one per domain, in non-increasing eCPM order, both keys with the
\* 3600 s expiry
RankingsAgree ==
    LET m == redisBest.val
        s == redisSorted.val
    IN  /\ Live(redisBest) /\ Live(redisSorted)
        /\ Len(s) = Len(m)
        /\ {s[i] : i \in 1..Len(s)} = {m[i] : i \in 1..Len(m)}
        /\ \A i, j \in 1..Len(s) : s[i].domain = s[j].domain => i = j
        /\ \A i \in 1..(Len(s) - 1) : s[i].ecpm >= s[i + 1].ecpm
        /\ redisBest.exp = now + RANKING_TTL
        /\ redisSorted.exp = now + RANKING_TTL

\* C10: after each successful refresh (here: whenever a refresh has
\* published and no run is in progress) redirect:sorted_domains holds
\* exactly the entries of redirect:best_links_map, one per domain, none
\* missing or added, in non-increasing eCPM order, both keys with a 3600 s
\* TTL
C10_SortedMatchesBest ==
    (pubData # <<>> /\ \A c \in Ctrls : run[c].pc = "idle") => RankingsAgree

(***************************************************************************)
(* Properties: the link store after a refresh                              *)
(***************************************************************************)
\* the domains of the valid rows of an analytics result
ResultDomains(data) == {data[i].domain : i \in ValidRows(data)}

\* the active records of link store ls
ActiveSet(ls) == {k \in 1..Len(ls) : ls[k].status}

\* link store ls is reconciled with the analytics result data: one active
\* record per domain of the result, carrying the url of the domain's winning
\* row, and no other active record
Reconciled(ls, data) ==
    /\ \A d \in ResultDomains(data) :
           /\ Cardinality({k \in ActiveSet(ls) : ls[k].domain = d}) = 1
           /\ \A k \in ActiveSet(ls) :
                  ls[k].domain = d =>
                      ls[k].url = BestUrl(d, data[Winner(data, d)].custom_value)
    /\ \A k, j \in ActiveSet(ls) :
           (ls[k].domain = ls[j].domain /\ ls[k].url = ls[j].url) => k = j
    /\ \A k \in ActiveSet(ls) : ls[k].domain \in ResultDomains(data)

\* C11: after a successful refresh (the run that ended last returned its map
\* and no command of it failed, no run in progress) every domain of the
\* analytics result has exactly one active link record, carrying its
\* BestLinkMap url, at most one record is active per (domain, url), and no
\* record that is not a current winner is active
C11_LinkStoreReconciled ==
    ((\A c \in Ctrls : run[c].pc = "idle")
        /\ lastEnd.result = "map" /\ lastEnd.fault = "none")
    => Reconciled(links, lastEnd.data)

(***************************************************************************)
(* Properties: refresh runs that fail                                      *)
(***************************************************************************)
\* C12: a refresh whose aggregation answers no rows, or whose analytics read
\* fails, ends at once and changes nothing: both ranking keys (value and
\* expiry), the in-memory copies of every controller and the link store are
\* as before the run
C12_EmptyRefreshChangesNothing ==
    [][(/\ refreshes' # refreshes
        /\ \A c \in Ctrls : run'[c] # run[c] => run'[c].data = <<>>)
       => /\ run' = run
          /\ lastEnd'.n = lastEnd.n + 1
          /\ lastEnd'.result \in {"null", "throws"}
          /\ UNCHANGED <<redisBest, redisSorted, cache, links>>]_vars

\* a controller that had published a ranking ran again and got no rows
C12_Witness ==
    /\ lastEnd.n = 2 /\ lastEnd.result = "null"
    /\ Live(redisBest) /\ Live(redisSorted)
    /\ cache[lastEnd.ctrl].best # <<>>
    /\ links # <<>>

\* C13: when one of the two SETs of a run fails, the controller's in-memory
\* BestLinkMap and SortedDomainList, with their timestamps, are what they were
\* when the run started; and a run started after such a failure goes through
\* both SETs again
C13_PartialPublishKeepsCopies ==
    [][\A c \in Ctrls :
         /\ (lastEnd'.n # lastEnd.n /\ lastEnd'.ctrl = c /\ lastEnd'.fault = "cache")
                => cache'[c] = run[c].prev
         /\ (lastEnd.fault = "cache" /\ run[c].pc = "idle" /\ run'[c].pc # "idle"
                /\ Len(run'[c].best) > 0)
                => run'[c].pc = "setBest"]_vars

\* the positions of a run inside the reconciliation of the link store
Reconciling == {"list", "deactivate", "lookup", "apply"}

\* C14: a failing command of the link store (listing, deactivation, lookup,
\* update, insert) neither prevents nor undoes the publication of its run:
\* a run with a map reaches the reconciliation only with both ranking keys
\* written, no step of the reconciliation touches the keys or the in-memory
\* copies, and a run that met such a failure ends by returning its map
C14_LinkFailureKeepsPublication ==
    /\ [](\A c \in Ctrls :
            (run[c].pc \in Reconciling /\ Len(run[c].best) > 0)
                => (Live(redisBest) /\ Live(redisSorted)))
    /\ [][/\ \A c \in Ctrls :
               (run[c].pc \in Reconciling /\ run'[c] # run[c])
                   => UNCHANGED <<redisBest, redisSorted, cache>>
          /\ (lastEnd'.n # lastEnd.n /\ lastEnd'.fault = "links")
                   => lastEnd'.result = "map"]_vars

\* a run published both keys, a command of its reconciliation failed, and
\* the keys still hold what the run wrote
C14_Witness ==
    /\ lastEnd.fault = "links" /\ lastEnd.result = "map"
    /\ Live(redisBest) /\ redisBest.val = BuildBestByDomain(lastEnd.data)
    /\ Live(redisSorted)
    /\ redisSorted.val = SortedDomainsOf(BuildBestByDomain(lastEnd.data))
    /\ \E k \in 1..Len(links) : links[k].status

(***************************************************************************)
(* Properties: who runs the refresh                                        *)
(***************************************************************************)
\* the controllers of this process with an executeProcessInternal in progress
Running == {c \in Ctrls : run[c].pc # "idle"}

\* C15: within one process at most one execution of the refresh job is in
\* progress at any time, over the start-up runs and cron firings of every
\* controller the application creates and over GET /api/process
C15_OneRefreshAtATime == Cardinality(Running) <= 1

\* the processes that are alive, and those with the schedule installed
LiveProcesses == {w \in WorkerIds : cluster.workers[w] \in {"forked", "online"}}
Schedulers == {w \in WorkerIds : Scheduled(w)}

\* C16: once every live process has started, exactly one live process has the
\* refresh schedule installed: worker #1 in a clustered deployment, the sole
\* process otherwise; also after workers exited and were replaced
C16_ExactlyOneScheduler ==
    (\A w \in LiveProcesses : Online(w))
    => Schedulers = {IF cluster.enabled THEN 1 ELSE 0}

\* C17: a process that is not the primary never has the refresh job in
\* progress (no aggregation, no write of the ranking keys or of link status),
\* whatever requests it serves
C17_OnlyPrimaryRefreshes == (~isMainProcess(cluster.self)) => Running = {}

(***************************************************************************)
(* Properties: errors on the dispatch path                                 *)
(***************************************************************************)
\* the request of response e makes the code after the selection throw: its
\* language parameter is an array, or the selected domain is no host name
MustThrow(e) == e.query.languageRepeated \/ includes(e.domain, " ")

\* C18: every request gets exactly one response, a 204 (favicon) or a 302 and
\* nothing else; when the code throws the 302 goes to exactly
\* https://useuapp.com/random, and no other response carries that bare URL
C18_AlwaysRedirects ==
    /\ Cardinality(served) + Cardinality(InFlight) = Arrivals
    /\ \A e1, e2 \in served : (e1.ip = e2.ip /\ e1.id = e2.id) => e1 = e2
    /\ \A e \in served :
           /\ e.status \in {204, 302}
           /\ e.status = 204 => includes(e.reqUrl, "favicon")
           /\ e.status = 302 =>
                  /\ MustThrow(e) => e.location = "https://useuapp.com/random"
                  /\ e.location = "https://useuapp.com/random" => MustThrow(e)

\* the catch answered a request with a repeated language parameter and one
\* sent to a domain that is no host name, and a request sent normally to
\* https://useuapp.com/random was answered with the decorated URL
C18_Witness ==
    /\ \E e \in served : e.query.languageRepeated /\ e.location = EmergencyUrl
    /\ \E e \in served : includes(e.domain, " ") /\ e.location = EmergencyUrl
    /\ \E e \in served :
           /\ e.url = "https://useuapp.com/random"
           /\ e.location = "https://useuapp.com/random?utm_source=redron"
                           \o "&utm_medium=broadcast&utm_campaign=fallback_useuapp.com"

\* C19: a request all of whose shared-cache commands were rejected (INCR,
\* GET) is not answered by the emergency fallback: it is served as visit 1
\* from the in-memory SortedDomainList if the process has one, else from the
\* in-memory BestLinkMap entry of the first registry domain if there is one,
\* and else is sent to that registry domain's /random URL
C19_OutageServesLocalCopy ==
    [][\A e \in served' \ served :
         e.down =>
           LET c == cache[e.ctrl] IN
           /\ e.status = 302 /\ e.visit = 1
           /\ IF c.sorted # <<>>
              THEN e.url = c.sorted[1].url
              ELSE IF \E k \in 1..Len(c.best) : c.best[k].domain = domains[1]
              THEN \E k \in 1..Len(c.best) :
                       c.best[k].domain = domains[1] /\ e.url = c.best[k].url
              ELSE e.domain \in Registry /\ e.url = "https://" \o e.domain \o "/random"
           /\ e.location # "https://useuapp.com/random" \/ MustThrow(e)]_vars

\* with the shared cache unreachable one request was sent to /random (no
\* copy yet) and a later one was served from the in-memory list
C19_Witness ==
    \E e1, e2 \in served :
        /\ e1.down /\ e1.sorted = <<>> /\ e1.url = "https://useuapp.com/random"
        /\ e1.location # EmergencyUrl
        /\ e2.down /\ e2.sorted # <<>> /\ e2.url = e2.sorted[1].url
        /\ e2.id > e1.id

\* C20: a request whose path or raw URL contains "favicon" is answered 204
\* without body at once and changes nothing: no visitor cursor, no global
\* counter, no click, no recent:<ip>, no in-memory copy
C20_FaviconShortCircuit ==
    /\ [](\A r \in Slots : req[r].pc # "idle" => ~includes(req[r].reqUrl, "favicon"))
    /\ [][\A e \in served' \ served :
            includes(e.reqUrl, "favicon") =>
                /\ e.status = 204 /\ e.location = ""
                /\ UNCHANGED <<redisVars, cache, clickVars>>]_vars

\* both kinds of favicon request were answered after the client had been
\* dispatched once
C20_Witness ==
    /\ \E e \in served : e.reqUrl = "/favicon.ico" /\ e.status = 204
    /\ \E e \in served : e.reqUrl = "/?utm_source=favicon" /\ e.status = 204
    /\ \E e \in served : e.status = 302
    /\ DOMAIN redisVisitor # {}

(***************************************************************************)
(* SpecUrl: dispatch of one client whose requests carry language and UTM   *)
(* parameters, over rankings with inverted-language and other hosts        *)
(***************************************************************************)
\* analytics results with hosts of the inverted-language list, a host that
\* contains a listed name, and hosts outside the list
LangData == <<Row("appmobile4u.com", "1", 900), Row(domains[1], "1", 500)>>
SubData == <<Row("www.appcombos.com", "1", 900), Row(domains[2], "2", 500)>>

\* requests: the raw URL and its parsed query string
UrlRequests ==
    {<<"/", NoQuery>>,
     <<"/?language=en", [NoQuery EXCEPT !.language = "en"]>>,
     <<"/?language=pt", [NoQuery EXCEPT !.language = "pt"]>>,
     <<"/?language=es", [NoQuery EXCEPT !.language = "es"]>>,
     <<"/?language=a%20b", [NoQuery EXCEPT !.language = "a b"]>>,
     <<"/?utm_source=fb&utm_campaign=c%201&utm_term=t&fbclid=x",
       [NoQuery EXCEPT !.utm_source = "fb", !.utm_campaign = "c 1",
                       !.utm_term = "t", !.fbclid = "x"]>>,
     <<"/?language=es&utm_medium=m&utm_content=k%26v&gclid=g",
       [NoQuery EXCEPT !.language = "es", !.utm_medium = "m",
                       !.utm_content = "k&v", !.gclid = "g"]>>}

InitUrl ==
    InitWith(0, {BothKeys(LangData), BothKeys(SubData), BothKeys(SingleData), NoKeys},
             {"built"}, {NoLinks})

NextUrl ==
    \/ \E rq \in UrlRequests : Arrive(1, "1.2.3.4", rq[1], rq[2], MaxUrlReq, 1)
    \/ Replies

SpecUrl == InitUrl /\ [][NextUrl]_vars

(***************************************************************************)
(* Language prefix and UTM decoration                                      *)
(***************************************************************************)
StartsWith(s, p) == Len(s) >= Len(p) /\ SubSeq(s, 1, Len(p)) = p

\* the responses of requests that reached the decoration of the chosen URL
Decorated == {e \in served : e.status = 302 /\ e.path # "error"}

\* what follows "https://<domain>" in the chosen URL: its path and query
PathAndQuery(e) == SubSeq(e.url, Len("https://" \o e.domain) + 1, Len(e.url))

\* the location is u followed by the UTM parameters
DecorationOf(loc, u) ==
    StartsWith(loc, u \o "?utm_source=") \/ StartsWith(loc, u \o "&utm_source=")

\* the path prefix the rule gives for language l on a host that is inverted
\* (inv) or not
PrefixRule(inv, l) ==
    IF inv
    THEN IF l = "" \/ l = "en" THEN "/en" ELSE IF l = "pt" THEN "" ELSE "/" \o l
    ELSE IF l = "" THEN "" ELSE "/" \o l

\* language values made of letters, digits and hyphens
PlainLanguage(l) == \A i \in 1..Len(l) : Char(l, i) \in Unreserved \cup {"-"}

PtOutside ==
    {e \in Decorated :
        /\ e.query.language = "pt"
        /\ e.path = "ranked"
        /\ ~\E d \in invertedLangDomains : includes(e.domain, d)}

\* C22 as stated: with language=pt and a domain outside the inverted-language
\* set the chosen URL keeps its path, https://A/?p=1 stays /?p=1
C22_PtKeepsPath ==
    \A e \in PtOutside : DecorationOf(e.location, e.url)

\* C22 amended: with language=pt and a domain outside the inverted-language
\* set the path gets the prefix /pt, https://A/?p=1 becomes https://A/pt/?p=1
C22_PtPrefixed ==
    \A e \in PtOutside :
        DecorationOf(e.location, "https://" \o e.domain \o "/pt" \o PathAndQuery(e))

\* a request with language=pt was sent to the best link of useuapp.com, post 1
C22_Witness ==
    \E e \in PtOutside :
        /\ e.url = "https://useuapp.com/?p=1"
        /\ StartsWith(e.location, "https://useuapp.com/pt/?p=1&utm_source=redron")

\* the text after the first "?" of u, "" if there is none
QueryOf(u) ==
    LET qm == IndexFrom(u, "?", 1) IN
    IF qm = 0 THEN "" ELSE SubSeq(u, qm + 1, Len(u))

RECURSIVE SplitAmp(_)
\* the parameters of a query string, split at "&"
SplitAmp(s) ==
    IF s = "" THEN <<>>
    ELSE LET amp == IndexFrom(s, "&", 1) IN
         IF amp = 0 THEN <<s>>
         ELSE <<SubSeq(s, 1, amp - 1)>> \o SplitAmp(SubSeq(s, amp + 1, Len(s)))

\* the characters PctEscape has an escape for
EscapedChars ==
    {" ", "!", "#", "$", "%", "&", "'", "(", ")", "*", "+", ",", "-", ".", "/",
     ":", ";", "=", "?", "@", "_", "~"}

RECURSIVE formDecode(_)
\* the value a form-urlencoded text stands for: + is a space, %XX a character
formDecode(s) ==
    IF s = "" THEN ""
    ELSE IF Char(s, 1) = "+" THEN " " \o formDecode(SubSeq(s, 2, Len(s)))
    ELSE IF Char(s, 1) = "%" /\ Len(s) >= 3
              /\ \E c \in EscapedChars : PctEscape(c) = SubSeq(s, 1, 3)
         THEN (CHOOSE c \in EscapedChars : PctEscape(c) = SubSeq(s, 1, 3))
              \o formDecode(SubSeq(s, 4, Len(s)))
    ELSE Char(s, 1) \o formDecode(SubSeq(s, 2, Len(s)))

\* a parameter "k=v" as the pair of its name and its decoded value
PairOf(seg) ==
    LET eq == IndexFrom(seg, "=", 1) IN
    IF eq = 0 THEN <<seg, "">>
    ELSE <<SubSeq(seg, 1, eq - 1), formDecode(SubSeq(seg, eq + 1, Len(seg)))>>

\* the parameters of u, in order
PairsOf(u) == LET segs == SplitAmp(QueryOf(u)) IN [i \in 1..Len(segs) |-> PairOf(segs[i])]

\* <<k, v>> if v is given, nothing otherwise
Given(k, v) == IF v # "" THEN <<<<k, v>>>> ELSE <<>>

\* the UTM parameters a request with query q and selected link id must get
UtmPairs(q, linkId) ==
    <<<<"utm_source", IF q.utm_source # "" THEN q.utm_source ELSE "redron">>,
      <<"utm_medium", IF q.utm_medium # "" THEN q.utm_medium ELSE "broadcast">>,
      <<"utm_campaign", IF q.utm_campaign # "" THEN q.utm_campaign ELSE linkId>>>>
    \o Given("utm_term", q.utm_term) \o Given("utm_content", q.utm_content)
    \o Given("fbclid", q.fbclid) \o Given("gclid", q.gclid)

CacheTicks == {59, 60}

InitCache ==
    InitWith(0, {BothKeys(SingleData), MapOnly(ScenarioData)}, {"built"}, {OldLinks})

NextCache ==
    \/ run[2].pc = "idle" /\ Arrive(1, "1.2.3.4", "/", NoQuery, MaxCacheReq, 1)
    \/ run[2].pc = "idle" /\ ArriveDown(1, "1.2.3.4", "/", NoQuery, MaxCacheReq, 1)
    \/ Replies
    \/ \E r \in Slots : SortedGetFail(r)
    \/ \E r \in Slots : BestGetFail(r)
    \/ \E d \in CacheTicks : Tick(d)
    \/ InFlight = {} /\ refreshes < MaxCacheRuns /\ Aggregate(2, DataB)
    \/ SetBest(2)
    \/ SetSorted(2)
    \/ ListLinks(2)
    \/ Deactivate(2)
    \/ Lookup(2)
    \/ Apply(2)

SpecCache == InitCache /\ [][NextCache]_vars

(***************************************************************************)
(* The in-memory copies of the rankings                                    *)
(***************************************************************************)
\* controller c has a copy younger than 60 s
YoungSorted(c) == cache[c].sorted # <<>> /\ now - cache[c].sortedTime < 60
YoungBest(c) == cache[c].best # <<>> /\ now - cache[c].bestTime < 60

\* the response sent in this step, if any
NewResponses == served' \ served

\* the request of slot r after the step: still in flight, or answered
Post(r) == IF req'[r].pc # "idle" THEN req'[r] ELSE CHOOSE e \in NewResponses : TRUE

\* in this step the request of slot r begins to read the sorted list
StartsSortedRead(r) ==
    \/ req[r].pc = "idle" /\ req'[r].pc \notin {"idle", "expire"}
    \/ req[r].pc = "idle" /\ req'[r].pc = "idle" /\ NewResponses # {} /\ arrived' # arrived
    \/ req[r].pc = "expire" /\ req'[r].pc # "expire"

\* the URL the registry fallback takes from map m for domain d
UrlFrom(m, d) ==
    IF \E k \in 1..Len(m) : m[k].domain = d
    THEN m[CHOOSE k \in 1..Len(m) : m[k].domain = d].url
    ELSE "https://" \o d \o "/random"

\* a read of the sorted list: a copy younger than 60 s is returned as it is
\* and no GET is issued; otherwise a GET is issued
SortedReadStart(r) ==
    StartsSortedRead(r) =>
        /\ cache' = cache
        /\ IF YoungSorted(Post(r).ctrl)
           THEN /\ req'[r].pc # "sortedGet"
                /\ Post(r).sorted = cache[Post(r).ctrl].sorted
           ELSE /\ req'[r].pc = "sortedGet"
                /\ req'[r].savedNow = now

\* the end of the GET of the sorted list: a value replaces the copy and its
\* time; no value, or a failed GET, leaves the copy and returns it
SortedReadEnd(r) ==
    LET q == req[r]
        replaced == /\ Live(redisSorted)
                    /\ cache'[q.ctrl].sorted = redisSorted.val
                    /\ cache'[q.ctrl].sortedTime = q.savedNow
                    /\ cache'[q.ctrl].best = cache[q.ctrl].best
                    /\ Post(r).sorted = redisSorted.val
        kept     == /\ cache' = cache
                    /\ Post(r).sorted = cache[q.ctrl].sorted
    IN  (q.pc = "sortedGet" /\ req'[r].pc # "sortedGet") =>
            /\ replaced \/ kept
            /\ ~Live(redisSorted) => kept
            /\ (q.down /\ Post(r).down) => kept
            /\ (q.down /\ ~Post(r).down /\ Live(redisSorted)) => replaced

\* a read of the map by the registry fallback: a GET is issued only without
\* a copy younger than 60 s
BestReadStart(r) ==
    (req[r].pc # "bestGet" /\ req'[r].pc = "bestGet") =>
        ~YoungBest(req'[r].ctrl) /\ req'[r].savedNow = now

\* a registry fallback answered in a step that ends no GET of the map got
\* the URL of a copy younger than 60 s
BestReadLocal ==
    (\A r \in Slots : req[r].pc # "bestGet") =>
        \A e \in NewResponses :
            e.path \in {"fallback-best", "fallback-random"} =>
                YoungBest(e.ctrl) /\ e.url = UrlFrom(cache[e.ctrl].best, e.domain)

\* the end of the GET of the map
BestReadEnd(r) ==
    LET q == req[r]
        replaced == /\ Live(redisBest)
                    /\ cache'[q.ctrl].best = redisBest.val
                    /\ cache'[q.ctrl].bestTime = q.savedNow
                    /\ Post(r).url = UrlFrom(redisBest.val, Post(r).domain)
        kept     == /\ cache' = cache
                    /\ Post(r).url = UrlFrom(cache[q.ctrl].best, Post(r).domain)
    IN  q.pc = "bestGet" /\ req'[r].pc # "bestGet" =>
            /\ replaced \/ kept
            /\ ~Live(redisBest) => kept
            /\ (q.down /\ Post(r).down) => kept
            /\ (q.down /\ ~Post(r).down /\ Live(redisBest)) => replaced

\* C24: a read of a ranking returns the in-memory copy without a GET when the
\* copy is younger than 60 s; otherwise it issues a GET, and a value replaces
\* the copy and its time, while a failed GET or no value returns the copy as
\* it was.  So a request served while the key is held and the GET succeeds
\* uses a copy younger than 60 s or the value just read
C24_LocalCacheRead ==
    [][/\ \A r \in Slots :
             /\ SortedReadStart(r) /\ SortedReadEnd(r)
             /\ BestReadStart(r) /\ BestReadEnd(r)
        /\ BestReadLocal]_vars

\* the copy of the "/" controller, 60 s old, was replaced by the list that
\* GET /api/process had published in between, and the second request was
\* served from it
C24_Witness ==
    /\ cache[1].sorted = SortedDomainsOf(BuildBestByDomain(DataB))
    /\ cache[1].sortedTime = StartTime + 60
    /\ \E e1, e2 \in served :
           /\ e1.id = 1 /\ e1.sorted = SortedDomainsOf(BuildBestByDomain(SingleData))
           /\ e2.id = 2 /\ e2.sorted = cache[1].sorted /\ e2.path = "ranked"

(***************************************************************************)
(* SpecExpiry: dispatch of one client on "/" (controller 1) and on         *)
(* /api/redirect (controller 2), one request at a time, while no refresh   *)
(* runs and the ranking keys reach the end of their 3600 s                 *)
(***************************************************************************)
\* the route of each controller
RouteOf(c) == IF c = 1 THEN "/" ELSE "/api/redirect"

InitExpiry == InitWith(0, {BothKeys(ScenarioData)}, {"built"}, {NoLinks})

NextExpiry ==
    \/ \E c \in Ctrls : Arrive(c, "1.2.3.4", RouteOf(c), NoQuery, MaxExpiryReq, 1)
    \/ Replies
    \/ InFlight = {} /\ Tick(1800)

SpecExpiry == InitExpiry /\ [][NextExpiry]_vars

\* both ranking keys have expired
RankingsExpired == ~Live(redisSorted) /\ ~Live(redisBest)

\* C25 as stated: once the ranking keys have expired every dispatch is
\* answered with a /random URL and none with a best link cached before
C25_ExpiredRankingsNotServed ==
    [][RankingsExpired =>
         \A e \in NewResponses :
             e.url = "https://" \o e.domain \o "/random" /\ e.domain \in Registry]_vars

\* C25 amended: once the ranking keys have expired a controller keeps
\* serving its in-memory copies, however old: visit v gets entry v of its
\* list; without a list, visit v <= 4 gets the entry of registry domain v in
\* its map; only a request with neither gets a /random URL, as does one beyond
\* the list (spill)
C25_ExpiredRankingsServedFromCopy ==
    [][RankingsExpired =>
         \A e \in NewResponses :
             LET c == cache[e.ctrl] IN
             /\ cache' = cache
             /\ IF c.sorted # <<>> /\ e.visit <= Len(c.sorted)
                THEN e.path = "ranked" /\ e.url = c.sorted[e.visit].url
                ELSE IF c.sorted = <<>> /\ e.visit <= Len(domains)
                THEN e.url = UrlFrom(c.best, domains[e.visit])
                ELSE /\ e.path = "spill" /\ e.domain \in Registry
                     /\ e.url = "https://" \o e.domain \o "/random"]_vars

\* after the expiry (the requests of clock hour 1) "/" served the best link
\* it had cached before, and /api/redirect, without a copy, a /random URL
C25_Witness ==
    /\ RankingsExpired
    /\ \E e0, e1, e2 \in served :
           /\ e0.hour = 0 /\ e0.ctrl = 1 /\ e0.path = "ranked"
           /\ e1.hour = 1 /\ e1.ctrl = 1 /\ e1.path = "ranked"
           /\ e1.url = "https://dopeaaps.com/?p=2"
           /\ e2.hour = 1 /\ e2.ctrl = 2 /\ e2.path = "fallback-random"
           /\ e2.url = "https://dopeaaps.com/random"

(***************************************************************************)
(* SpecTwice: refresh runs back to back, each started after the one before *)
(* has returned, over the same analytics rows                              *)
(***************************************************************************)
InitTwice == InitWith(0, {NoKeys, BothKeys(ScenarioData)}, {"built"}, {NoLinks, OldLinks})

\* no run is in progress, and the rows are those of the run before
BackToBack(data) ==
    /\ \A c \in Ctrls : run[c].pc = "idle"
    /\ lastEnd.n > 0 => lastEnd.data = data

NextTwice ==
    \/ \E c \in Ctrls, data \in AnalyticsResults : BackToBack(data) /\ Aggregate(c, data)
    \/ \E c \in Ctrls : SetBest(c)
    \/ \E c \in Ctrls : SetSorted(c)
    \/ \E c \in Ctrls : ListLinks(c)
    \/ \E c \in Ctrls : Deactivate(c)
    \/ \E c \in Ctrls : Lookup(c)
    \/ \E c \in Ctrls : Apply(c)

SpecTwice == InitTwice /\ [][NextTwice]_vars

\* C26: a refresh run started right after another one over the same rows
\* leaves what that one left: when it returns, the published BestLinkMap and
\* SortedDomainList have the values they had when it started, its own map is
\* the published one, and the link store has the same records with the same
\* status (the same active records)
C26_RefreshIdempotent ==
    [][\A c \in Ctrls :
          /\ (run[c].pc # "idle" /\ run'[c].pc = "idle" /\ lastEnd.n > 0) =>
                 /\ redisBest'.present = run[c].start.best.present
                 /\ redisBest'.val = run[c].start.best.val
                 /\ redisSorted'.present = run[c].start.sorted.present
                 /\ redisSorted'.val = run[c].start.sorted.val
                 /\ Len(run[c].best) > 0 => run[c].best = redisBest'.val
                 /\ ActiveSet(links') = ActiveSet(run[c].start.links)
                 /\ links' = run[c].start.links
          /\ (refreshes' # refreshes /\ run' = run /\ lastEnd.n > 0) =>
                 UNCHANGED <<redisBest, redisSorted, links>>]_vars

\* two runs over DataB have returned; the first had found the link records
\* of an earlier ranking, deactivated one and created one
C26_Witness ==
    /\ lastEnd.n = 2 /\ lastEnd.result = "map" /\ lastEnd.data = DataB
    /\ \A c \in Ctrls : run[c].pc = "idle"
    /\ redisBest.val = BuildBestByDomain(DataB)
    /\ Len(links) = 3 /\ ActiveSet(links) = {1, 3}

(***************************************************************************)
(* SpecDegraded: the routes createApp mounts, in a process started with or *)
(* without MONGODB_URL, under GET requests                                 *)
(***************************************************************************)

\* the sole process as createApp leaves it when MONGODB_URL is not set: a
\* warning, db undefined
NoDatabase == [SoleProcess EXCEPT !.db = FALSE]

\* Express mounts a handler at /api for /api itself and everything below it
UnderApi(path) == path = "/api" \/ (Len(path) > 4 /\ SubSeq(path, 1, 5) = "/api/")

\* the routes of createHealthRouter whose handlers always answer 200
HealthRoutes == {"/health", "/ping"}

\* the routes of createHealthRouter whose handlers ping the stores first
CheckedRoutes == {"/health/detailed", "/health/ready"}

\* the routes createApp mounts after the health router when db is undefined
DegradedRouteApiOnly(path) == UnderApi(path)
DegradedRoute(path) == path = "/" \/ UnderApi(path)

\* the routes that reach redirect() when db is defined
DispatchRoutes == {"/", "/api/redirect"}

\* the other routes of the /api router: the refresh trigger and the reports
ApiRoutes == {"/api/process", "/api/stats", "/api/links"}

\* a handler that answers at once
Answer(ip, rawUrl, status) ==
    /\ arrived' = [arrived EXCEPT ![ip] = @ + 1]
    /\ served' = served \cup
         {Response([IdleReq EXCEPT !.id = arrived[ip] + 1, !.ip = ip,
                                   !.reqUrl = rawUrl, !.path = "app"],
                   status, "")}
    /\ UNCHANGED <<timeVars, redisVars, cache, req, clickVars, refreshVars, cluster>>

\* GET /health and GET /ping
HealthGet(ip, rawUrl, maxReq) ==
    /\ arrived[ip] < maxReq
    /\ ReqPath(rawUrl) \in HealthRoutes
    /\ Answer(ip, rawUrl, 200)

\* GET /health/detailed and GET /health/ready: 503 when a ping fails
CheckedGet(ip, rawUrl, maxReq) ==
    /\ arrived[ip] < maxReq
    /\ ReqPath(rawUrl) \in CheckedRoutes
    /\ \E status \in {200, 503} : Answer(ip, rawUrl, status)

\* the fallbacks for /api and / when there is no database
Unavailable(ip, rawUrl, maxReq) ==
    /\ arrived[ip] < maxReq
    /\ ~cluster.db
    /\ ReqPath(rawUrl) \notin HealthRoutes \cup CheckedRoutes
    /\ DegradedRoute(ReqPath(rawUrl))
    /\ Answer(ip, rawUrl, 503)

\* app.use('*'): no route answered
NotFound(ip, rawUrl, maxReq) ==
    /\ arrived[ip] < maxReq
    /\ ReqPath(rawUrl) \notin HealthRoutes \cup CheckedRoutes
    /\ IF cluster.db THEN ReqPath(rawUrl) \notin DispatchRoutes \cup ApiRoutes
                     ELSE ~DegradedRoute(ReqPath(rawUrl))
    /\ Answer(ip, rawUrl, 404)

\* app.get('/') and the /api router with a database
Dispatch(ip, rawUrl, maxReq) ==
    /\ cluster.db
    /\ ReqPath(rawUrl) \in DispatchRoutes
    /\ Arrive(IF ReqPath(rawUrl) = "/" THEN 1 ELSE 2, ip, rawUrl,
              IF rawUrl = ReqPath(rawUrl) THEN NoQuery
              ELSE [NoQuery EXCEPT !.language = "es"], maxReq, 1)

AppUrls ==
    {"/", "/?language=es", "/api", "/api/redirect", "/api/process", "/api/stats",
     "/api/x/y", "/apix", "/health", "/ping", "/health/ready", "/health/detailed",
     "/other"}

InitDegraded ==
    /\ InitProcess(0, {BothKeys(SingleData), MapOnly(ScenarioData)}, {"built"}, {NoLinks})
    /\ cluster \in {SoleProcess, NoDatabase}

NextDegraded ==
    \/ \E u \in AppUrls : HealthGet("1.2.3.4", u, MaxAppReq)
    \/ \E u \in AppUrls : CheckedGet("1.2.3.4", u, MaxAppReq)
    \/ \E u \in AppUrls : Unavailable("1.2.3.4", u, MaxAppReq)
    \/ \E u \in AppUrls : NotFound("1.2.3.4", u, MaxAppReq)
    \/ \E u \in AppUrls : Dispatch("1.2.3.4", u, MaxAppReq)
    \/ Replies

SpecDegraded == InitDegraded /\ [][NextDegraded]_vars

InitReaders ==
    InitWith(0, {NoKeys, MapOnly(ScenarioData)}, {"built"}, {OldLinks})

NextReaders ==
    \/ run[2].pc = "idle" /\ \E rq \in ErrRequests : Arrive(1, "1.2.3.4", rq[1], rq[2], MaxReaderReq, 1)
    \/ run[2].pc = "idle" /\ \E rq \in ErrRequests : ArriveDown(1, "1.2.3.4", rq[1], rq[2], MaxReaderReq, 1)
    \/ Replies
    \/ \E r \in Slots : ExpireFail(r)
    \/ \E r \in Slots : SortedGetFail(r)
    \/ \E r \in Slots : BestGetFail(r)
    \/ \E r \in Slots : SpillFail(r)
    \/ InFlight = {} /\ refreshes < MaxReaderRuns /\ Aggregate(2, DataB)
    \/ SetBest(2)
    \/ SetSorted(2)
    \/ ListLinks(2)
    \/ Deactivate(2)
    \/ Lookup(2)
    \/ Apply(2)

SpecReaders == InitReaders /\ [][NextReaders]_vars

\* a step of redirect(): a request arrives, resumes or is answered
DispatchStep == req' # req \/ arrived' # arrived \/ served' # served

\* the status field of every link record
StatusOf(ls) == [k \in 1..Len(ls) |-> ls[k].status]

RankingStores == <<redisBest, redisSorted, StatusOf(links)>>

\* C28: no step of a dispatch request, on any path, writes
\* redirect:best_links_map, redirect:sorted_domains or the status of a link
\* record; a step that changes one of them is a step of a refresh run
C28_DispatchReadsOnly ==
    [][/\ DispatchStep => RankingStores' = RankingStores
       /\ RankingStores' # RankingStores => run' # run]_vars

C28_Witness ==
    /\ lastEnd.n = 1
    /\ Live(redisBest) /\ Live(redisSorted)
    /\ StatusOf(links) # StatusOf(OldLinks)
    /\ \E e \in served : e.path = "favicon"
    /\ \E e \in served : e.path = "error"
    /\ \E e \in served : e.path \in {"ranked", "spill", "fallback-best", "fallback-random"}

(***************************************************************************)
(* SpecIds: one refresh run over a row whose post id is any short text of  *)
(* letters, digits, URL delimiters and a character outside ASCII           *)
(***************************************************************************)
IdChars == {"a", "7", " ", "&", "+", "%", "=", "?", "#", "/", "'", "é"}

RECURSIVE IdsOfLen(_)
\* the texts of n characters of IdChars
IdsOfLen(n) ==
    IF n = 0 THEN {""} ELSE {s \o c : s \in IdsOfLen(n - 1), c \in IdChars}

\* item.custom_value of the analytics rows: the empty text is skipped by the
\* refresher
PostIds == UNION {IdsOfLen(n) : n \in 1..MaxIdLen}

InitIds == InitWith(0, {NoKeys}, {"built"}, {OldLinks})

NextIds ==
    \/ \E c \in Ctrls, id \in PostIds :
          refreshes = 0 /\ Aggregate(c, <<Row(domains[1], id, 100)>>)
    \/ \E c \in Ctrls : SetBest(c)
    \/ \E c \in Ctrls : SetSorted(c)
    \/ \E c \in Ctrls : ListLinks(c)
    \/ \E c \in Ctrls : Deactivate(c)
    \/ \E c \in Ctrls : Lookup(c)
    \/ \E c \in Ctrls : Apply(c)

SpecIds == InitIds /\ [][NextIds]_vars

\* the characters PctEscape has an escape for
Escapable == EscapedChars \cup {"é"}

RECURSIVE urldecode(_)
\* the value a query parameter's text stands for: + is a space, the escapes
\* of a character are that character, everything else stands for itself
urldecode(s) ==
    IF s = "" THEN ""
    ELSE IF Char(s, 1) = "+" THEN " " \o urldecode(SubSeq(s, 2, Len(s)))
    ELSE IF Char(s, 1) = "%" /\ \E c \in Escapable : StartsWith(s, PctEscape(c))
         THEN LET c == CHOOSE x \in Escapable : StartsWith(s, PctEscape(x)) IN
              c \o urldecode(SubSeq(s, Len(PctEscape(c)) + 1, Len(s)))
    ELSE Char(s, 1) \o urldecode(SubSeq(s, 2, Len(s)))

\* the query of u: what follows the first "?", up to a "#"
QueryPart(u) ==
    LET q    == QueryOf(u)
        hash == IndexFrom(q, "#", 1)
    IN  IF hash = 0 THEN q ELSE SubSeq(q, 1, hash - 1)

\* the name of a parameter "k=v"
NameOf(seg) ==
    LET eq == IndexFrom(seg, "=", 1) IN
    IF eq = 0 THEN seg ELSE SubSeq(seg, 1, eq - 1)

\* the text after the first "=" of a parameter
ValueOf(seg) ==
    LET eq == IndexFrom(seg, "=", 1) IN
    IF eq = 0 THEN "" ELSE SubSeq(seg, eq + 1, Len(seg))

\* the decoded value of the first parameter p of u, <<>> if there is none
ParamP(u) ==
    LET segs == SplitAmp(QueryPart(u))
        ps   == {i \in 1..Len(segs) : NameOf(segs[i]) = "p"}
    IN  IF ps = {} THEN <<"none">>
        ELSE urldecode(ValueOf(segs[CHOOSE i \in ps : \A j \in ps : i <= j]))

RoundTrip(entries) ==
    \A i \in 1..Len(entries) : ParamP(entries[i].url) = entries[i].postId

\* C29: for every post id, the p parameter of the URL the refresher builds
\* for it, decoded, is the post id: in the map a run has built, in the map
\* and the list it has published and in the copies the controllers hold
C29_PostIdRoundTrip ==
    /\ \A c \in Ctrls : RoundTrip(run[c].best) /\ RoundTrip(cache[c].best)
                        /\ RoundTrip(cache[c].sorted)
    /\ RoundTrip(redisBest.val)
    /\ RoundTrip(redisSorted.val)

C29_Witness ==
    /\ Live(redisBest)
    /\ Len(redisBest.val) = 1
    /\ redisBest.val[1].postId = "+&"
    /\ redisBest.val[1].url = "https://useuapp.com/?p=%2B%26"
    /\ Live(redisSorted)
    /\ redisSorted.val[1].url = redisBest.val[1].url

(***************************************************************************)
(* SpecCursor: the requests of one visitor while the clock passes from one *)
(* hour into the next                                                      *)
(***************************************************************************)
\* from half past: one second before the hour, one second after it, and half
\* past the next hour
CursorTicks == {1799, 1801, 3600}

InitCursor == InitWith(0, {BothKeys(SingleData)}, {"built"}, {NoLinks})

NextCursor ==
    \/ Arrive(1, "1.2.3.4", "/", NoQuery, MaxCursorReq, MaxConc)
    \/ Replies
    \/ \E d \in CursorTicks : Tick(d)

SpecCursor == InitCursor /\ [][NextCursor]_vars

\* key k holds a cursor that has not expired
Held(k) == k \in DOMAIN redisVisitor /\ Live(redisVisitor[k])

\* the instant clock hour h of the day the behaviour starts in ends
HourEnd(h) == (StartTime \div 86400) * 86400 + (h + 1) * 3600

\* a step of the visitor cursors: what INCR and EXPIRE do to the TTL
CursorStep ==
    /\ \A k \in DOMAIN redisVisitor' :
         LET new == redisVisitor'[k] IN
         \* an INCR that returns 1 is followed by EXPIRE
         /\ (/\ ~Held(k) /\ new.present /\ new.n = 1
             /\ (k \in DOMAIN redisVisitor => new # redisVisitor[k]))
                => \E r \in Slots : req[r].pc = "idle" /\ req'[r].pc = "expire"
                                    /\ req'[r].key = k /\ req'[r].visit = 1
         \* an INCR that returns more than 1 leaves the TTL as it is
         /\ (Held(k) /\ new.n > redisVisitor[k].n)
                => /\ new.exp = redisVisitor[k].exp
                   /\ \A r \in Slots : req'[r].pc = "expire" => req[r] = req'[r]
         \* the TTL of a cursor changes by that EXPIRE only
         /\ (Held(k) /\ new.exp # redisVisitor[k].exp)
                => \E r \in Slots : /\ req[r].pc = "expire" /\ req'[r].pc # "expire"
                                    /\ req[r].key = k /\ req[r].visit = 1
                                    /\ new.n = redisVisitor[k].n
    \* EXPIRE sets 3600 s from now
    /\ \A r \in Slots :
         (req[r].pc = "expire" /\ req'[r].pc # "expire" /\ Held(req[r].key))
            => redisVisitor'[req[r].key].exp = now + 3600

\* no cursor of clock hour h expires before hour h has ended
CursorOutlivesHour ==
    \A k \in DOMAIN redisVisitor :
        redisVisitor[k].exp # NoExpiry => redisVisitor[k].exp >= HourEnd(k[2])

\* while the clock is in hour h an answered visitor's cursor of hour h is
\* held, with the number of the visitor's latest request of that hour
CursorKept ==
    \A e \in served :
        (e.path # "favicon" /\ e.hour = HourOf(now))
            => /\ Held(<<e.ip, e.hour>>)
               /\ redisVisitor[<<e.ip, e.hour>>].n >= e.visit

\* C30: the cursor key gets its 3600 s TTL exactly when INCR returns 1 and a
\* later increment never touches the TTL; a cursor created during clock
\* hour h does not expire, and so does not restart at 1, before hour h has
\* ended: it expires at or after the hour boundary
C30_CursorTtl ==
    /\ [][CursorStep]_vars
    /\ [](CursorOutlivesHour /\ CursorKept)

C30_Witness ==
    /\ now = StartTime + 1799
    /\ Held(<<"1.2.3.4", 0>>)
    /\ redisVisitor[<<"1.2.3.4", 0>>].n = 3
    /\ redisVisitor[<<"1.2.3.4", 0>>].exp = StartTime + 3600
    /\ \E e \in served : e.visit = 3 /\ e.hour = 0

(***************************************************************************)
(* SpecDetached: the click write and the recent:<ip> write of a request,   *)
(* each succeeding or failing, after redirect() has answered               *)
(***************************************************************************)
InitDetached == InitWith(0, {BothKeys(SingleData)}, {"building", "built"}, {NoLinks})

NextDetached ==
    \/ Arrive(1, "1.2.3.4", "/", NoQuery, MaxDetachedReq, 1)
    \/ ArriveDown(1, "1.2.3.4", "/", NoQuery, MaxDetachedReq, 1)
    \/ Replies
    \/ \E r \in Slots : ExpireFail(r)
    \/ \E r \in Slots : SortedGetFail(r)
    \/ \E r \in Slots : BestGetFail(r)
    \/ \E r \in Slots : SpillFail(r)
    \/ ClickSteps

SpecDetached == InitDetached /\ [][NextDetached]_vars

\* the click write of response e is still pending
ClickPending(e, tasks) == \E t \in tasks : t.ip = e.ip /\ t.id = e.id /\ t.pc = "find"

\* a step of a click write: it completes, goes on to its insert, or fails
ClickStep == \E t \in clickTasks : t \notin clickTasks'

\* C31: redirect() answers without waiting for the click write or the
\* recent:<ip> write: the response is sent in the step that starts the click
\* write, whether or not the recent:<ip> write is accepted, with status 302
\* and the decorated URL as Location; and no step of a click write, failed
\* or not, changes a response sent, the visitor cursors or the global counter
C31_DetachedWrites ==
    [][/\ \A e \in NewResponses :
            e.path \notin {"favicon", "error"}
                => /\ e.status = 302
                   /\ e.location = FinalRedirectUrl(e.url, e.query, e.linkId)
                   /\ ClickPending(e, clickTasks') /\ ~ClickPending(e, clickTasks)
       /\ ClickStep => UNCHANGED <<served, redisVisitor, redisCounter>>]_vars

\* a response was sent with its Location although its recent:<ip> write was
\* rejected, and a click write has failed since
C31_Witness ==
    /\ clickLost > 0
    /\ "1.2.3.4" \notin DOMAIN redisRecent
    /\ \E e \in served :
         /\ e.down /\ e.status = 302 /\ e.linkId # ""
         /\ e.location = FinalRedirectUrl(e.url, e.query, e.linkId)
         /\ ~ClickPending(e, clickTasks)

(***************************************************************************)
(* SpecDate: refresh runs at several times of day on hosts whose local     *)
(* time is behind, at, or ahead of UTC                                     *)
(***************************************************************************)
\* offsets of the host's local time: UTC-3, UTC, UTC+3
TzOffsets == {0 - 3 * 3600, 0, 3 * 3600}

\* from half past midnight UTC: to the early morning, to noon, to late evening
DateTicks == {2 * 3600, 12 * 3600, 22 * 3600}

InitDate ==
    /\ InitProcess(0, {NoKeys}, {"built"}, {OldLinks})
    /\ cluster \in {[SoleProcess EXCEPT !.tz = o] : o \in TzOffsets}

NextDate ==
    \/ \E d \in DateTicks : Tick(d)
    \/ \E c \in Ctrls : Aggregate(c, DataB)
    \/ \E c \in Ctrls : SetBest(c)
    \/ \E c \in Ctrls : SetSorted(c)
    \/ \E c \in Ctrls : ListLinks(c)
    \/ \E c \in Ctrls : Deactivate(c)
    \/ \E c \in Ctrls : Lookup(c)
    \/ \E c \in Ctrls : Apply(c)

SpecDate == InitDate /\ [][NextDate]_vars

\* C32: the date a run sends as start and end of its analytics query is the
\* UTC calendar date of the instant the run starts, at every time of day and
\* for every offset of the host's local time
C32_QueryDateIsUtcDate ==
    [][\A c \in Ctrls :
          (run[c].pc = "idle" /\ run'[c].pc # "idle") => run'[c].today = IsoDate(now)]_vars

(***************************************************************************)
(* The domain-rotation dispatcher (redirect-controller.ts): redirect()     *)
(* takes the next registry domain for every request and gives a visitor    *)
(* the best link of a domain it has not seen this hour.  The key           *)
(* visitor:<ip>:<hour>:<domain> is kept with the other visitor keys of the *)
(* shared cache                                                            *)
(***************************************************************************)
\* getVisitorKey(ip, domain)
VisitorKey(ip, domain) == <<ip, HourOf(now), domain>>

\* hasVisitorSeenDomain: GET of the key answers something
Seen(k) == k \in DOMAIN redisVisitor /\ Live(redisVisitor[k])

\* SET visitorKey '1' EX 3600
MarkSeen(k) ==
    [x \in DOMAIN redisVisitor \cup {k} |->
        IF x = k THEN [present |-> TRUE, n |-> 1, exp |-> now + VISITOR_TTL]
        ELSE redisVisitor[x]]

\* a request arrives and getNextDomain's INCR answers: the domain is known
\* and GET visitorKey is sent
RotArrive(ip, rawUrl, query, maxReq, maxConc) ==
    /\ Arrivals < maxReq
    /\ Cardinality(InFlight) < maxConc
    /\ arrived' = [arrived EXCEPT ![ip] = @ + 1]
    /\ LET r       == CHOOSE x \in Slots \ InFlight : \A y \in Slots \ InFlight : x <= y
           counter == IncrResult(redisCounter)
           q       == [IdleReq EXCEPT !.id = arrived[ip] + 1, !.ip = ip,
                                      !.query = query, !.reqUrl = rawUrl,
                                      !.key = <<ip, HourOf(now)>>]
       IN  IF IsFavicon(rawUrl)
           THEN /\ served' = served \cup {Response([q EXCEPT !.path = "favicon"], 204, "")}
                /\ UNCHANGED <<req, redisCounter, clickTasks, redisRecent>>
           ELSE /\ redisCounter' = counter
                /\ Commit(r, [q EXCEPT !.counter = counter,
                                       !.domain = domains[RandomIndex(counter) + 1],
                                       !.pc = "seenGet"])
    /\ UNCHANGED <<cluster, timeVars, refreshVars, redisVisitor, redisBest, redisSorted,
                   cache, clickDocs, clickIndex, clickLost>>

\* GET visitorKey answers.  Seen: the /random URL.  Not seen: the best link
\* from the in-memory map if that is fresh, with the key set at once;
\* otherwise GET redirect:best_links_map is awaited first
RotSeenGet(r) ==
    LET q == req[r]
        c == cache[q.ctrl]
        k == VisitorKey(q.ip, q.domain)
    IN  /\ q.pc = "seenGet"
        /\ IF Seen(k)
           THEN /\ Commit(r, [q EXCEPT !.redirectUrl = "https://" \o q.domain
                                                       \o generateRandomPath,
                                       !.linkId = "random_" \o q.domain,
                                       !.path = "revisit",
                                       !.pc = "respond"])
                /\ UNCHANGED redisVisitor
           ELSE IF c.best # <<>> /\ Fresh(c.bestTime)
           THEN /\ Commit(r, FallbackStage(q, c.best))
                /\ redisVisitor' = MarkSeen(k)
           ELSE /\ Commit(r, [q EXCEPT !.pc = "mapGet", !.savedNow = now])
                /\ UNCHANGED redisVisitor
        /\ UNCHANGED <<cluster, timeVars, refreshVars, redisCounter, redisBest, redisSorted,
                       cache, arrived, clickDocs, clickIndex, clickLost>>

\* GET redirect:best_links_map answers: the best link of the domain or the
\* fallback, and the key is set
RotMapGet(r) ==
    LET q == req[r]
        c == cache[q.ctrl]
        k == VisitorKey(q.ip, q.domain)
    IN  /\ q.pc = "mapGet"
        /\ IF Live(redisBest)
           THEN /\ cache' = [cache EXCEPT ![q.ctrl].best = redisBest.val,
                                          ![q.ctrl].bestTime = q.savedNow]
                /\ Commit(r, FallbackStage(q, redisBest.val))
           ELSE /\ UNCHANGED cache
                /\ Commit(r, FallbackStage(q, c.best))
        /\ redisVisitor' = MarkSeen(k)
        /\ UNCHANGED <<cluster, timeVars, refreshVars, redisCounter, redisBest, redisSorted,
                       arrived, clickDocs, clickIndex, clickLost>>

(***************************************************************************)
(* SpecRotation: requests of one visitor to the rotation dispatcher, up to *)
(* MaxConc of them in flight together                                      *)
(***************************************************************************)
InitRotation == InitWith(0, {BothKeys(ScenarioData), NoKeys}, {"built"}, {NoLinks})

RotRequests == {"/", "/favicon.ico"}

NextRotation ==
    \/ \E u \in RotRequests : RotArrive("1.2.3.4", u, NoQuery, MaxRotReq, MaxConc)
    \/ \E r \in Slots : RotSeenGet(r)
    \/ \E r \in Slots : RotMapGet(r)

SpecRotation == InitRotation /\ [][NextRotation]_vars

\* the responses that answered ip for domain d in hour h as a first visit
FirstVisits(ip, h, d) ==
    {e \in served : e.ip = ip /\ e.hour = h /\ e.domain = d /\ e.path # "revisit"}

\* C33: a visitor gets the best link of a domain at most once per clock
\* hour, also when its requests are handled concurrently: of the requests of
\* one visitor that the rotation assigns to one domain within the hour, one
\* is answered as a first visit and every other is sent to /random with
\* linkId random_<domain>
C33_BestLinkOncePerHour ==
    \A e \in served :
        e.domain # ""
            => /\ Cardinality(FirstVisits(e.ip, e.hour, e.domain)) <= 1
               /\ e.path = "revisit"
                    => /\ e.url = "https://" \o e.domain \o "/random"
                       /\ e.linkId = "random_" \o e.domain

\* a dispatch holds key k between its INCR and its EXPIRE
ExpirePending(k) == \E r \in Slots : req[r].pc = "expire" /\ req[r].key = k

\* C34: whenever no dispatch step on the key is in flight, every
\* visitor_count:<ip>:<hour> key that exists in the shared cache has an
\* expiry set, also after a failed EXPIRE
C34_CursorKeyHasExpiry ==
    \A k \in DOMAIN redisVisitor :
        (Cursor(k) > 0 /\ ~ExpirePending(k)) => redisVisitor[k].exp # NoExpiry

(***************************************************************************)
(* SpecRanked: dispatch of one client with the shared cache reachable,     *)
(* within a clock hour and past its end, GET /api/process publishing the   *)
(* ranking in the opposite order between two requests                      *)
(***************************************************************************)
\* the domains of ScenarioData, the other one ahead
ReversedData == <<Row(domains[1], "1", 1000), Row(domains[2], "2", 500)>>

\* clock advances: to the last second of the hour, and into the next hour
RankedTicks == {1799, 3600}

InitRanked == InitWith(0, {BothKeys(ScenarioData)}, {"built"}, {OldLinks})

NextRanked ==
    \/ run[2].pc = "idle" /\ Arrive(1, "1.2.3.4", "/", NoQuery, MaxRankedReq, MaxConc)
    \/ Replies
    \/ \E d \in RankedTicks : Tick(d)
    \/ InFlight = {} /\ refreshes < MaxRankedRuns /\ Aggregate(2, ReversedData)
    \/ SetBest(2)
    \/ SetSorted(2)
    \/ ListLinks(2)
    \/ Deactivate(2)
    \/ Lookup(2)
    \/ Apply(2)

SpecRanked == InitRanked /\ [][NextRanked]_vars

\* two dispatches of one IP in one hour that took the ranked path
RankedPair(e1, e2) ==
    /\ e1.id # e2.id
    /\ e1.ip = e2.ip /\ e1.hour = e2.hour
    /\ e1.path = "ranked" /\ e2.path = "ranked"

\* C35: while the SortedDomainList seen by the serving process does not
\* change and the shared cache is reachable, any two dispatches of one IP in
\* one clock hour that take the ranked path select different list entries,
\* so the IP is not sent to the same ranked domain twice
C35_RankedDomainOncePerHour ==
    \A e1, e2 \in served :
        (RankedPair(e1, e2) /\ e1.sorted = e2.sorted)
            => /\ e1.visit # e2.visit
               /\ e1.domain # e2.domain

\* two ranked dispatches of the hour under one list, the second after the
\* clock has advanced within the hour
C35_Witness ==
    \E e1, e2 \in served :
        /\ RankedPair(e1, e2) /\ e1.sorted = e2.sorted
        /\ e1.visit = 1 /\ e2.visit = 2
        /\ now > StartTime /\ HourOf(now) = e1.hour

\* without the list staying the same the IP can be sent to one ranked domain
\* twice in the hour
C35_ListChanged ==
    \E e1, e2 \in served :
        RankedPair(e1, e2) /\ e1.sorted # e2.sorted /\ e1.domain = e2.domain

\* a step of the run of c, the run having built no map
MaplessStep(c) == run[c].pc # "idle" /\ Len(run[c].best) = 0 /\ run'[c] # run[c]

\* C36: a refresh run that publishes no new BestLinkMap (no rows, no row
\* with both domain and custom_value, or a rejected write of the shared
\* cache) leaves the link store as it is: it deactivates no active link
C36_NoPublicationKeepsLinks ==
    [][/\ \A c \in Ctrls : MaplessStep(c) => links' = links
       /\ (lastEnd'.n # lastEnd.n /\ (lastEnd'.result = "null" \/ lastEnd'.fault = "cache"))
            => links' = links]_vars

(***************************************************************************)
(* SpecRewrite: dispatch of one client, one request at a time, at any      *)
(* point of a refresh run that writes another ranking over the keys        *)
(***************************************************************************)
InitRewrite ==
    InitWith(0, {BothKeys(ScenarioData), MapOnly(ScenarioData)}, {"built"}, {OldLinks})

NextRewrite ==
    \/ Arrive(1, "1.2.3.4", "/", NoQuery, MaxRewriteReq, 1)
    \/ Replies
    \/ refreshes < MaxRewriteRuns /\ Aggregate(2, DataB)
    \/ SetBest(2)
    \/ SetSorted(2)
    \/ ListLinks(2)
    \/ Deactivate(2)
    \/ Lookup(2)
    \/ Apply(2)

SpecRewrite == InitRewrite /\ [][NextRewrite]_vars

\* the analytics results whose ranking has been published so far
PublishedResults == {ScenarioData} \cup (IF pubData = <<>> THEN {} ELSE {pubData})

\* response e is made of entry x alone
BuiltFrom(e, x) ==
    /\ e.domain = x.domain
    /\ e.url = x.url
    /\ e.linkId = BestLinkId(x.domain, x.postId)

\* C37: every redirect with a best_ linkId is built from one entry of one
\* published ranking: domain, url and postId come from the same entry of the
\* list (ranked path) or of the map (registry fallback) of one refresh, also
\* while a refresh rewrites the keys and when the keys differ in size
C37_OneEntryOneRanking ==
    \A e \in served :
        StartsWith(e.linkId, "best_")
            => \E d \in PublishedResults :
                  LET best == BuildBestByDomain(d) IN
                  /\ \E p \in 1..Len(best) : BuiltFrom(e, best[p])
                  /\ e.path = "ranked" => \E p \in 1..Len(e.sorted) :
                                              /\ p = e.visit
                                              /\ BuiltFrom(e, e.sorted[p])
                                              /\ e.sorted[p] \in {best[i] : i \in 1..Len(best)}

\* between the two SETs of a refresh, the map key rewritten and the list key
\* absent, a request was answered from an entry of the new map
C37_Witness ==
    /\ run[2].pc = "setSorted"
    /\ Live(redisBest) /\ redisBest.val = BuildBestByDomain(DataB)
    /\ ~Live(redisSorted)
    /\ \E e \in served :
          /\ e.path = "fallback-best"
          /\ \E p \in 1..Len(redisBest.val) :
                /\ BuiltFrom(e, redisBest.val[p])
                /\ redisBest.val[p] \notin
                     {BuildBestByDomain(ScenarioData)[i] : i \in 1..2}

(***************************************************************************)
(* SpecOverlap: two refresh runs that overlap, the analytics result        *)
(* changing between their aggregations                                     *)
(***************************************************************************)
InitOverlap == InitWith(0, {NoKeys}, {"built"}, {NoLinks, OldLinks})

NextOverlap ==
    \/ refreshes = 0 /\ Aggregate(1, ScenarioData)
    \/ run[1].pc # "idle" /\ Aggregate(2, DataB)
    \/ \E c \in Ctrls : SetBest(c)
    \/ \E c \in Ctrls : SetSorted(c)
    \/ \E c \in Ctrls : ListLinks(c)
    \/ \E c \in Ctrls : Deactivate(c)
    \/ \E c \in Ctrls : Lookup(c)
    \/ \E c \in Ctrls : Apply(c)

SpecOverlap == InitOverlap /\ [][NextOverlap]_vars

\* link store ls holds one active record for every domain of map best, no
\* other active record, and no two records with the same domain and url
OneActivePerWinner(ls, best) ==
    /\ \A p \in 1..Len(best) :
          Cardinality({k \in ActiveSet(ls) : ls[k].domain = best[p].domain}) = 1
    /\ \A k \in ActiveSet(ls) : PosOf(best, ls[k].domain) > 0
    /\ \A j, k \in 1..Len(ls) :
          (ls[j].domain = ls[k].domain /\ ls[j].url = ls[k].url) => j = k

\* C38: when two refresh runs overlap and the analytics result changes
\* between them, then once both have finished redirect:sorted_domains is the
\* sorted form of redirect:best_links_map, and the link store has exactly one
\* active record per winning domain and no duplicate (domain, url) records
C38_OverlapEndsAsOneRun ==
    (refreshes = 2 /\ \A c \in Ctrls : run[c].pc = "idle")
        => /\ Live(redisBest) /\ Live(redisSorted)
           /\ redisSorted.val = SortedDomainsOf(redisBest.val)
           /\ OneActivePerWinner(links, redisBest.val)

=============================================================================
